---- MODULE Spec2Model ----
(***************************************************************************)
(* A model of the OpenAI orchestrators of langchaingo: LLM.Generate and    *)
(* Chat.Generate, with their streaming accumulators                        *)
(* (createCompletionStream, createChatCompletionStream) and non-streaming  *)
(* collectors (createCompletion, createChatCompletion).                    *)
(*                                                                         *)
(* One behaviour is one Generate call on one orchestrator instance.  The   *)
(* provider (the go-openai client), the caller's streaming sink and the    *)
(* logger are the environment: what they return is chosen                  *)
(* nondeterministically, and what they were handed is recorded in the      *)
(* history variables provider, sinkLog and log.                            *)
(*                                                                         *)
(* Go values: a nil error is Nil, io.EOF is EOF, a pointer is a sequence   *)
(* of length 0 (nil) or 1, a nil slice is the empty sequence.              *)
(***************************************************************************)
EXTENDS Integers, Sequences, FiniteSets, TLC

\* Bounds of the model.
MaxItems == 2      \* prompts / message-sets handed to one Generate call
MaxDeltas == 2     \* deltas the provider delivers over one Generate call

Nil == "nil"
EOF == "EOF"
ErrEmptyResponse == "no response"
FinishReasonFunctionCall == "function_call"

Kinds == {"completion", "chat"}
ProviderErrors == {"transport error", "context canceled"}
SinkErrors == {"sink failed"}

----------------------------------------------------------------------------
\* The values the provider may answer with.

Fragments == {"", "a", "b"}
FinishReasons == {"", "stop", FinishReasonFunctionCall}
FunctionCalls == {[Name |-> "f", Arguments |-> "{"], [Name |-> "", Arguments |-> "}"]}
Usages == {[PromptTokens |-> 1, CompletionTokens |-> 2, TotalTokens |-> 3],
           [PromptTokens |-> 4, CompletionTokens |-> 0, TotalTokens |-> 4]}

\* openai.CompletionChoice: the fields the orchestrator reads.
CompletionChoices == [Text : Fragments, FinishReason : FinishReasons]
OtherCompletionChoice == [Text |-> "z", FinishReason |-> "length"]

\* openai.ChatCompletionStreamChoice: Delta.FunctionCall is a pointer; a delta
\* that carries function-call data carries no content.
ChatStreamChoices ==
    {[Delta |-> [Content |-> c, FunctionCall |-> <<>>], FinishReason |-> r] :
        c \in Fragments, r \in FinishReasons}
    \cup
    {[Delta |-> [Content |-> "", FunctionCall |-> <<f>>], FinishReason |-> r] :
        f \in FunctionCalls, r \in FinishReasons}
OtherChatStreamChoice ==
    [Delta |-> [Content |-> "z", FunctionCall |-> <<>>], FinishReason |-> "length"]

\* openai.ChatCompletionChoice: Message.FunctionCall is a pointer, nil or not
\* whatever the finish reason says.
ChatChoices ==
    {[Message |-> [Content |-> c, FunctionCall |-> <<>>], FinishReason |-> r] :
        c \in {"", "a"}, r \in FinishReasons}
    \cup
    {[Message |-> [Content |-> "", FunctionCall |-> <<f>>], FinishReason |-> r] :
        f \in FunctionCalls, r \in FinishReasons}
OtherChatChoice ==
    [Message |-> [Content |-> "z", FunctionCall |-> <<>>], FinishReason |-> "length"]

\* Choice lists: none, one, or one followed by a second choice.
ChoiceLists(first, other) ==
    {<<>>} \cup {<<c>> : c \in first}
           \cup {<<c, other>> : c \in {x \in first : x.FinishReason = ""}}

CompletionStreamResponses ==
    {[Choices |-> cs] : cs \in ChoiceLists(CompletionChoices, OtherCompletionChoice)}
ChatStreamResponses ==
    {[Choices |-> cs] : cs \in ChoiceLists(ChatStreamChoices, OtherChatStreamChoice)}
CompletionResponses ==
    {[Choices |-> cs, Usage |-> u] :
        cs \in ChoiceLists({c \in CompletionChoices : c.Text /= "b"}, OtherCompletionChoice),
        u \in Usages}
ChatResponses ==
    {[Choices |-> cs, Usage |-> u] :
        cs \in ChoiceLists(ChatChoices, OtherChatChoice), u \in Usages}

NoResponse == [Choices |-> <<>>]

----------------------------------------------------------------------------
VARIABLES
    kind,          \* the orchestrator: "completion" (LLM) or "chat" (Chat)
    pc,            \* where the Generate call stands
    nItems,        \* len(prompts) / len(messageSets)
    streaming,     \* request.Stream: opts.StreamingFunc != nil
    idx,           \* the item the range loop is at (1-based)
    generations,   \* the generations slice
    ret,           \* what Generate returned (meaningful when pc = "done")
    output,        \* createCompletionStream's output / the chat stream's text
    finishReason,  \* the accumulator's finishReason
    functionCall,  \* the chat accumulator's functionCall pointer
    opened,        \* history: items whose stream was opened, in order
    closes,        \* history: items whose stream got a Close call, in order
    inflight,      \* provider requests issued and not yet resolved
    requests,      \* history: provider requests issued, in order
    provider,      \* history: what the provider returned, in order
    sinkLog,       \* history: the sink's invocations and what each returned
    log            \* history: the logger's calls

\* The orchestrator instance and its CreateEmbedding call.
VARIABLES
    ctor,          \* the constructor that built the instance
    envModel,      \* os.Getenv(modelEnvVarName) at construction
    optModel,      \* the WithModel option handed to the constructor (pointer)
    model,         \* the instance's model field
    ipc,           \* where the instance's CreateEmbedding call stands
    built,         \* history: the request Generate built (pointer)
    embCall,       \* CreateEmbedding's arguments (pointer)
    embRequests,   \* history: embedding requests issued to the provider
    embResponse,   \* history: what client.CreateEmbeddings returned (pointer)
    embRet         \* what CreateEmbedding returned (pointer)

instVars == <<ctor, envModel, optModel, model, ipc, built, embCall, embRequests,
              embResponse, embRet>>

\* The structured-output parser and the calls made on it.
VARIABLES
    schemas,       \* p.ResponseJSONSchemas
    ppc,           \* per caller: where its call stands
    pcall,         \* per caller: the method called and its text (pointer)
    parsed,        \* per caller: parse's local parsed
    missingKeys,   \* per caller: parse's local missingKeys
    cursor,        \* per caller: the range loop's position in the schema
    jsonLines,     \* per caller: GetFormatInstructions's local jsonLines
    presult        \* per caller: what the call returned (pointer)

parserVars == <<schemas, ppc, pcall, parsed, missingKeys, cursor, jsonLines, presult>>

\* The chat request Chat.Generate builds from its arguments.
VARIABLES
    cpc,           \* where the building of the request stands
    chatCall,      \* Chat.Generate's arguments: messageSets and opts.Functions
    chatRequest    \* the request so far: Functions, FunctionCall, and the
                   \* translated message sets

requestVars == <<cpc, chatCall, chatRequest>>

\* The stable-diffusion Tool and its Call.
VARIABLES
    tpc,           \* where the Tool's Call stands
    tinput,        \* Call's input (pointer)
    thttp,         \* history: the text-to-image requests sent to the service
    tresp,         \* history: what the service answered (pointer)
    tfiles,        \* history: the files written
    tret           \* what Call returned (pointer)

toolVars == <<tpc, tinput, thttp, tresp, tfiles, tret>>

\* What surrounds a Generate call: the single-turn Call that made it, and the
\* Generate call another goroutine is making on the same instance.
VARIABLES
    callState,     \* the Call wrapper: where it stands and what it returned (pointer)
    parked         \* the locals of the other goroutine's Generate call

outerVars == <<callState, parked>>

\* The requests one Generate call issues, field by field.
VARIABLES
    rpc,           \* where the Generate call stands
    gcall,         \* Generate's arguments: the input items and the options given
    request,       \* Generate's local request (pointer: empty until it is built)
    ridx,          \* the range loop's position in the input
    issued         \* history: the requests handed to the client, by value

issueVars == <<rpc, gcall, request, ridx, issued>>

aux == <<instVars, parserVars, requestVars, toolVars, outerVars, issueVars>>

genVars == <<kind, pc, nItems, streaming, idx, generations, ret, output, finishReason,
             functionCall, opened, closes, inflight, requests, provider, sinkLog, log>>

vars == <<genVars, aux>>

acc == <<output, finishReason, functionCall>>

Prompt(i) == "p" \o ToString(i)

\* Deltas received so far in this call.
recvCount == Cardinality({j \in DOMAIN provider :
                             provider[j].op = "Recv" /\ provider[j].err = Nil})

----------------------------------------------------------------------------
\* Constructing the instance.

defaultChatModel == "gpt-3.5-turbo"
defaultCompletionModel == "text-davinci-003"
defaultEmbeddingModel == "text-embedding-ada-002"

ErrUnexpectedResponseLength == "unexpected length of response"
ErrUnexpectedEmbeddingModel == "unexpected embedding model"

\* The constructors of each kind of orchestrator.
Constructors(k) ==
    IF k = "completion" THEN {"New", "NewAzure"} ELSE {"NewChat", "NewAzureChat"}

\* The values the model environment variable and the WithModel option take;
\* <<>> is a constructor called without WithModel.
EnvModels == {"", "env-model"}
OptModels == {<<>>, <<"">>, <<"opt-model">>}

\* options.model once the constructor has read the environment variable and
\* applied its options.
ConfiguredModel(env, opt) == IF opt = <<>> THEN env ELSE opt[1]

\* New: the configured model, the completion default when that is empty.
New(env, opt) ==
    IF ConfiguredModel(env, opt) = "" THEN defaultCompletionModel
    ELSE ConfiguredModel(env, opt)

\* NewChat: the configured model, the chat default when that is empty.
NewChat(env, opt) ==
    IF ConfiguredModel(env, opt) = "" THEN defaultChatModel
    ELSE ConfiguredModel(env, opt)

\* NewAzure and NewAzureChat build the instance from the client alone: the
\* model field keeps Go's zero value whatever was configured.
NewAzure(env, opt) == ""

NewAzureChat(env, opt) == ""

\* The model field of the instance constructor c returns.
ConstructedModel(c, env, opt) ==
    CASE c = "New" -> New(env, opt)
      [] c = "NewChat" -> NewChat(env, opt)
      [] c = "NewAzure" -> NewAzure(env, opt)
      [] c = "NewAzureChat" -> NewAzureChat(env, opt)

\* The instance once constructor c has returned, no call made on it yet.
Constructed(c, env, opt) ==
    /\ ctor = c
    /\ envModel = env
    /\ optModel = opt
    /\ model = ConstructedModel(c, env, opt)
    /\ ipc = "ready"
    /\ built = <<>>
    /\ embCall = <<>>
    /\ embRequests = <<>>
    /\ embResponse = <<>>
    /\ embRet = <<>>

\* The goroutines that call the parser.
Callers == {"c1", "c2"}

\* ResponseJSONSchema values and the schema lists a parser is built from.
PromptSchema == [Name |-> "prompt", Description |-> "the image prompt"]
NegativePromptSchema == [Name |-> "negativePrompt", Description |-> "what to avoid"]
Schemas == {<<PromptSchema, NegativePromptSchema>>, <<PromptSchema>>}

\* NewStructuredJSON: the parser holds the schema list; no call made on it yet.
NewStructuredJSON(schema) ==
    /\ schemas = schema
    /\ ppc = [c \in Callers |-> "idle"]
    /\ pcall = [c \in Callers |-> <<>>]
    /\ parsed = [c \in Callers |-> <<>>]
    /\ missingKeys = [c \in Callers |-> <<>>]
    /\ cursor = [c \in Callers |-> 1]
    /\ jsonLines = [c \in Callers |-> ""]
    /\ presult = [c \in Callers |-> <<>>]

\* Chat.Generate called with the given message sets and declared functions,
\* its request not built yet.
ChatGenerateCalled(messageSets, functions) ==
    /\ cpc = "called"
    /\ chatCall = [messageSets |-> messageSets, Functions |-> functions]
    /\ chatRequest = [Functions |-> <<>>, FunctionCall |-> <<>>, messageSets |-> <<>>]

\* Generate called with the given input items and options, its request not
\* built yet.
GenerateCalled(items, given) ==
    /\ rpc = "called"
    /\ gcall = [items |-> items, options |-> given]
    /\ request = <<>>
    /\ ridx = 1
    /\ issued = <<>>

\* The stable-diffusion Tool as its New returns it, no Call made yet.
NewTool ==
    /\ tpc = "idle"
    /\ tinput = <<>>
    /\ thttp = <<>>
    /\ tresp = <<>>
    /\ tfiles = <<>>
    /\ tret = <<>>

\* The locals and the histories of a Generate call that has not begun.
IdleFrame ==
    [pc |-> "idle", nItems |-> 0, streaming |-> FALSE, idx |-> 1,
     generations |-> <<>>, ret |-> [generations |-> <<>>, err |-> Nil],
     output |-> "", finishReason |-> "", functionCall |-> <<>>,
     opened |-> <<>>, closes |-> <<>>, inflight |-> {}, requests |-> <<>>,
     provider |-> <<>>, sinkLog |-> <<>>, log |-> <<>>]

\* No Generate call made yet, by Call or by another goroutine either.
GenerateIdle ==
    /\ callState = <<>>
    /\ parked = IdleFrame
    /\ pc = "idle"
    /\ nItems = 0
    /\ streaming = FALSE
    /\ idx = 1
    /\ generations = <<>>
    /\ ret = [generations |-> <<>>, err |-> Nil]
    /\ output = ""
    /\ finishReason = ""
    /\ functionCall = <<>>
    /\ opened = <<>>
    /\ closes = <<>>
    /\ inflight = {}
    /\ requests = <<>>
    /\ provider = <<>>
    /\ sinkLog = <<>>
    /\ log = <<>>

\* An orchestrator built by New or NewChat with nothing configured, about to
\* serve one Generate call.
Init ==
    /\ kind \in Kinds
    /\ GenerateIdle
    /\ Constructed(IF kind = "completion" THEN "New" ELSE "NewChat", "", <<>>)
    /\ NewStructuredJSON(<<PromptSchema, NegativePromptSchema>>)
    /\ ChatGenerateCalled(<<>>, <<>>)
    /\ NewTool
    /\ GenerateCalled(<<>>, <<>>)

----------------------------------------------------------------------------
\* The Generation Records the four collectors build.

\* createCompletionStream's return value.
CompletionStreamGeneration(out, fr) ==
    [Text |-> out,
     Message |-> <<>>,
     GenerationInfo |-> [FinishReason |-> fr]]

\* createChatCompletionStream's return value: Text is not set.
ChatStreamGeneration(text, fr, fc) ==
    [Text |-> "",
     Message |-> <<[Content |-> text, FunctionCall |-> fc]>>,
     GenerationInfo |-> [FinishReason |-> fr]]

\* createCompletion's return value, for a response with at least one choice.
CompletionGeneration(resp) ==
    [Text |-> resp.Choices[1].Text,
     Message |-> <<>>,
     GenerationInfo |-> [CompletionTokens |-> resp.Usage.CompletionTokens,
                         PromptTokens |-> resp.Usage.PromptTokens,
                         TotalTokens |-> resp.Usage.TotalTokens,
                         FinishReason |-> resp.Choices[1].FinishReason]]

\* createChatCompletion's return value, for a response with at least one choice
\* whose function-call pointer is not nil when the finish reason is the
\* function-call value (the dereference is unchecked).
ChatGeneration(resp) ==
    LET c == resp.Choices[1]
        fc == IF c.FinishReason = FinishReasonFunctionCall
              THEN <<[Name |-> c.Message.FunctionCall[1].Name,
                      Arguments |-> c.Message.FunctionCall[1].Arguments]>>
              ELSE <<>>
    IN [Text |-> c.Message.Content,
        Message |-> <<[Content |-> c.Message.Content, FunctionCall |-> fc]>>,
        GenerationInfo |-> [CompletionTokens |-> resp.Usage.CompletionTokens,
                            PromptTokens |-> resp.Usage.PromptTokens,
                            TotalTokens |-> resp.Usage.TotalTokens,
                            FinishReason |-> c.FinishReason]]

----------------------------------------------------------------------------
\* Pieces of Generate shared by its exit paths.

\* A faulty error branch: the records built so far are returned with the error.
ErrorReturn_partial(gens, err) == [generations |-> gens, err |-> err]

\* "return nil, err".
ErrorReturn(gens, err) == [generations |-> <<>>, err |-> err]

\* A faulty append: the new record is put in front.
AppendGeneration_front(gens, g) == <<g>> \o gens

\* "generations = append(generations, generation)".
AppendGeneration(gens, g) == Append(gens, g)

\* A faulty accumulator: the stream is never closed.
StreamClose_forgotten(cl, i) == cl

\* "defer stream.Close()" running at the accumulator's exit.
StreamClose(cl, i) == Append(cl, i)

\* A faulty accumulator: the sink's error is dropped.
SinkFailed_ignored(err) == FALSE

\* "if err != nil" after opts.StreamingFunc.
SinkFailed(err) == err /= Nil

\* The loop does not wait for the item in progress.
LoopReady_concurrent == pc \in {"loop", "open", "recv", "collect"}

\* The range loop is at its head: the previous item, if any, has resolved.
LoopReady == pc = "loop"

\* The request the item in flight stands for.
CurrentRequest == {r \in inflight : r.item = idx}

\* A faulty GenerateFail: the error is logged and the item is tried again.
GenerateFail_retry(err) ==
    /\ log' = Append(log, IF kind = "completion"
                          THEN [op |-> "LLMResponse", msg |-> err]
                          ELSE [op |-> "LLMError", msg |-> err])
    /\ pc' = "loop"
    /\ inflight' = inflight \ CurrentRequest
    /\ UNCHANGED <<generations, idx, ret>>

\* Generate's error branch: log, then return nil and the error.
GenerateFail(err) ==
    /\ log' = Append(log, IF kind = "completion"
                          THEN [op |-> "LLMResponse", msg |-> err]
                          ELSE [op |-> "LLMError", msg |-> err])
    /\ ret' = ErrorReturn(generations, err)
    /\ pc' = "done"
    /\ inflight' = inflight \ CurrentRequest
    /\ UNCHANGED <<generations, idx>>

\* Generate's success branch: log the text, append the record, next item.
GenerateCollect(g) ==
    /\ log' = Append(log, [op |-> "LLMResponse", msg |-> g.Text])
    /\ generations' = AppendGeneration(generations, g)
    /\ idx' = idx + 1
    /\ pc' = "loop"
    /\ inflight' = inflight \ CurrentRequest
    /\ UNCHANGED ret

\* A nil pointer dereference: the goroutine unwinds, deferred calls run, and
\* Generate never returns.
GeneratePanic ==
    /\ pc' = "panic"
    /\ inflight' = inflight \ CurrentRequest
    /\ UNCHANGED <<generations, idx, ret, log>>

----------------------------------------------------------------------------
\* Generate up to its loop: the options are applied and the request is built.
Generate(n, stream) ==
    /\ pc = "idle"
    /\ nItems' = n
    /\ streaming' = stream
    /\ generations' = <<>>
    /\ idx' = 1
    /\ pc' = "loop"
    /\ UNCHANGED <<aux, kind, ret, acc, opened, closes, inflight, requests, provider,
                   sinkLog, log>>

\* A faulty GenerateLoop: only the first item follows the streaming flag, the
\* later ones use the single-response operation.
GenerateLoop_firstOnly ==
    /\ LoopReady
    /\ idx <= nItems
    /\ log' = Append(log, [op |-> "LLMRequest", msg |-> Prompt(idx)])
    /\ LET stream == streaming /\ idx = 1
           req == [item |-> idx, seq |-> Len(requests) + 1,
                   op |-> IF kind = "completion"
                          THEN (IF stream THEN "CreateCompletionStream"
                                          ELSE "CreateCompletion")
                          ELSE (IF stream THEN "CreateChatCompletionStream"
                                          ELSE "CreateChatCompletion")]
       IN /\ requests' = Append(requests, req)
          /\ inflight' = inflight \cup {req}
          /\ pc' = IF stream THEN "open" ELSE "collect"
    /\ UNCHANGED <<aux, kind, nItems, streaming, idx, generations, ret, acc, opened,
                   closes, provider, sinkLog>>

\* One turn of the range loop up to the provider call: the request is logged
\* and issued.
GenerateLoop ==
    /\ LoopReady
    /\ idx <= nItems
    /\ log' = Append(log, [op |-> "LLMRequest", msg |-> Prompt(idx)])
    /\ LET req == [item |-> idx, seq |-> Len(requests) + 1,
                   op |-> IF kind = "completion"
                          THEN (IF streaming THEN "CreateCompletionStream"
                                             ELSE "CreateCompletion")
                          ELSE (IF streaming THEN "CreateChatCompletionStream"
                                             ELSE "CreateChatCompletion")]
       IN /\ requests' = Append(requests, req)
          /\ inflight' = inflight \cup {req}
    /\ pc' = IF streaming THEN "open" ELSE "collect"
    /\ UNCHANGED <<aux, kind, nItems, streaming, idx, generations, ret, acc, opened,
                   closes, provider, sinkLog>>

\* A faulty GenerateReturn: the logger is told of the return.
GenerateReturn_logged ==
    /\ LoopReady
    /\ idx > nItems
    /\ ret' = [generations |-> generations, err |-> Nil]
    /\ pc' = "done"
    /\ log' = Append(log, [op |-> "LLMResponse", msg |-> ""])
    /\ UNCHANGED <<aux, kind, nItems, streaming, idx, generations, acc, opened, closes,
                   inflight, requests, provider, sinkLog>>

\* The loop is over: "return generations, nil".
GenerateReturn ==
    /\ LoopReady
    /\ idx > nItems
    /\ ret' = [generations |-> generations, err |-> Nil]
    /\ pc' = "done"
    /\ UNCHANGED <<aux, kind, nItems, streaming, idx, generations, acc, opened, closes,
                   inflight, requests, provider, sinkLog, log>>

\* client.Create(Chat)CompletionStream returns: on an error the accumulator
\* returns before its defer; otherwise the stream is open and the locals are
\* initialised.
StreamOpen(err) ==
    /\ pc = "open"
    /\ provider' = Append(provider, [item |-> idx, op |-> "Open", err |-> err,
                                     resp |-> NoResponse])
    /\ IF err /= Nil
       THEN /\ GenerateFail(err)
            /\ UNCHANGED <<acc, opened>>
       ELSE /\ opened' = Append(opened, idx)
            /\ output' = ""
            /\ finishReason' = ""
            /\ functionCall' = <<>>
            /\ pc' = "recv"
            /\ UNCHANGED <<generations, idx, ret, inflight, log>>
    /\ UNCHANGED <<aux, kind, nItems, streaming, closes, requests, sinkLog>>

\* A faulty StreamRecvError: any error ends the stream as io.EOF does, and the
\* record is built from what was accumulated.
StreamRecvError_partial(err) ==
    /\ pc = "recv"
    /\ provider' = Append(provider, [item |-> idx, op |-> "Recv", err |-> err,
                                     resp |-> NoResponse])
    /\ closes' = StreamClose(closes, idx)
    /\ GenerateCollect(IF kind = "completion"
                       THEN CompletionStreamGeneration(output, finishReason)
                       ELSE ChatStreamGeneration(output, finishReason, functionCall))
    /\ UNCHANGED <<aux, kind, nItems, streaming, acc, opened, requests, sinkLog>>

\* A faulty StreamRecvError: the fragments of the failed item are taken back
\* from the sink.
StreamRecvError_retract(err) ==
    /\ pc = "recv"
    /\ provider' = Append(provider, [item |-> idx, op |-> "Recv", err |-> err,
                                     resp |-> NoResponse])
    /\ closes' = StreamClose(closes, idx)
    /\ GenerateFail(err)
    /\ sinkLog' = SelectSeq(sinkLog, LAMBDA e : e.item /= idx)
    /\ UNCHANGED <<aux, kind, nItems, streaming, acc, opened, requests>>

\* stream.Recv returns an error that is not io.EOF.
StreamRecvError(err) ==
    /\ pc = "recv"
    /\ provider' = Append(provider, [item |-> idx, op |-> "Recv", err |-> err,
                                     resp |-> NoResponse])
    /\ closes' = StreamClose(closes, idx)
    /\ GenerateFail(err)
    /\ UNCHANGED <<aux, kind, nItems, streaming, acc, opened, requests, sinkLog>>

\* A faulty StreamRecvEOF: io.EOF is returned to Generate as any other error.
StreamRecvEOF_error ==
    /\ pc = "recv"
    /\ provider' = Append(provider, [item |-> idx, op |-> "Recv", err |-> EOF,
                                     resp |-> NoResponse])
    /\ closes' = StreamClose(closes, idx)
    /\ GenerateFail(EOF)
    /\ UNCHANGED <<aux, kind, nItems, streaming, acc, opened, requests, sinkLog>>

\* stream.Recv returns io.EOF: the loop breaks and the record is built.
StreamRecvEOF ==
    /\ pc = "recv"
    /\ provider' = Append(provider, [item |-> idx, op |-> "Recv", err |-> EOF,
                                     resp |-> NoResponse])
    /\ closes' = StreamClose(closes, idx)
    /\ GenerateCollect(IF kind = "completion"
                       THEN CompletionStreamGeneration(output, finishReason)
                       ELSE ChatStreamGeneration(output, finishReason, functionCall))
    /\ UNCHANGED <<aux, kind, nItems, streaming, acc, opened, requests, sinkLog>>

\* A faulty createCompletionStreamRecv: an empty fragment is not delivered to
\* the sink.
createCompletionStreamRecv_skipEmpty(resp, sinkErr) ==
    /\ pc = "recv"
    /\ kind = "completion"
    /\ recvCount < MaxDeltas
    /\ provider' = Append(provider, [item |-> idx, op |-> "Recv", err |-> Nil,
                                     resp |-> resp])
    /\ IF Len(resp.Choices) = 0
       THEN /\ closes' = StreamClose(closes, idx)
            /\ GenerateFail(ErrEmptyResponse)
            /\ UNCHANGED <<acc, sinkLog>>
       ELSE LET text == resp.Choices[1].Text
            IN /\ sinkLog' = IF text = "" THEN sinkLog
                             ELSE Append(sinkLog, [item |-> idx, chunk |-> text,
                                                   err |-> sinkErr])
               /\ IF text /= "" /\ SinkFailed(sinkErr)
                  THEN /\ closes' = StreamClose(closes, idx)
                       /\ GenerateFail(sinkErr)
                       /\ UNCHANGED acc
                  ELSE /\ output' = output \o text
                       /\ finishReason' = resp.Choices[1].FinishReason
                       /\ UNCHANGED <<functionCall, closes, pc, generations, idx,
                                      ret, inflight, log>>
    /\ UNCHANGED <<aux, kind, nItems, streaming, opened, requests>>

\* createCompletionStream: stream.Recv returns a delta; sinkErr is what the
\* sink returns if it is invoked.
createCompletionStreamRecv(resp, sinkErr) ==
    /\ pc = "recv"
    /\ kind = "completion"
    /\ recvCount < MaxDeltas
    /\ provider' = Append(provider, [item |-> idx, op |-> "Recv", err |-> Nil,
                                     resp |-> resp])
    /\ IF Len(resp.Choices) = 0
       THEN /\ closes' = StreamClose(closes, idx)
            /\ GenerateFail(ErrEmptyResponse)
            /\ UNCHANGED <<acc, sinkLog>>
       ELSE LET text == resp.Choices[1].Text
            IN /\ sinkLog' = Append(sinkLog, [item |-> idx, chunk |-> text,
                                              err |-> sinkErr])
               /\ IF SinkFailed(sinkErr)
                  THEN /\ closes' = StreamClose(closes, idx)
                       /\ GenerateFail(sinkErr)
                       /\ UNCHANGED acc
                  ELSE /\ output' = output \o text
                       /\ finishReason' = resp.Choices[1].FinishReason
                       /\ UNCHANGED <<functionCall, closes, pc, generations, idx,
                                      ret, inflight, log>>
    /\ UNCHANGED <<aux, kind, nItems, streaming, opened, requests>>

\* A faulty CaptureFunctionCall: the delta's name and arguments are appended to
\* those captured before.
CaptureFunctionCall_concat(captured, fc) ==
    IF captured = <<>> THEN <<[Name |-> fc.Name, Arguments |-> fc.Arguments]>>
    ELSE <<[Name |-> captured[1].Name \o fc.Name,
            Arguments |-> captured[1].Arguments \o fc.Arguments]>>

\* The function call createChatCompletionStream captures from a delta whose
\* finish reason is the function-call value: a new value with the delta's own
\* name and arguments, whatever was captured before.
CaptureFunctionCall(captured, fc) ==
    <<[Name |-> fc.Name, Arguments |-> fc.Arguments]>>

\* createChatCompletionStream: stream.Recv returns a delta.
createChatCompletionStreamRecv(resp, sinkErr) ==
    /\ pc = "recv"
    /\ kind = "chat"
    /\ recvCount < MaxDeltas
    /\ provider' = Append(provider, [item |-> idx, op |-> "Recv", err |-> Nil,
                                     resp |-> resp])
    /\ IF Len(resp.Choices) = 0
       THEN /\ closes' = StreamClose(closes, idx)
            /\ GenerateFail(ErrEmptyResponse)
            /\ UNCHANGED <<acc, sinkLog>>
       ELSE LET c == resp.Choices[1]
                content == c.Delta.Content
            IN /\ sinkLog' = Append(sinkLog, [item |-> idx, chunk |-> content,
                                              err |-> sinkErr])
               /\ IF SinkFailed(sinkErr)
                  THEN /\ closes' = StreamClose(closes, idx)
                       /\ GenerateFail(sinkErr)
                       /\ UNCHANGED acc
                  ELSE /\ output' = output \o content
                       /\ finishReason' = c.FinishReason
                       /\ IF c.FinishReason = FinishReasonFunctionCall
                          THEN IF c.Delta.FunctionCall = <<>>
                               THEN /\ closes' = StreamClose(closes, idx)
                                    /\ GeneratePanic
                                    /\ UNCHANGED functionCall
                               ELSE /\ functionCall' =
                                          CaptureFunctionCall(functionCall,
                                                              c.Delta.FunctionCall[1])
                                    /\ UNCHANGED <<closes, pc, generations, idx, ret,
                                                   inflight, log>>
                          ELSE UNCHANGED <<functionCall, closes, pc, generations, idx,
                                           ret, inflight, log>>
    /\ UNCHANGED <<aux, kind, nItems, streaming, opened, requests>>

\* A faulty createCompletion: a zero-choice response yields an empty record.
createCompletion_record(resp, err) ==
    /\ pc = "collect"
    /\ kind = "completion"
    /\ provider' = Append(provider, [item |-> idx, op |-> "Create", err |-> err,
                                     resp |-> IF err = Nil THEN resp ELSE NoResponse])
    /\ IF err /= Nil
       THEN GenerateFail(err)
       ELSE IF Len(resp.Choices) = 0
            THEN GenerateCollect([Text |-> "", Message |-> <<>>,
                                  GenerationInfo |-> [FinishReason |-> ""]])
            ELSE GenerateCollect(CompletionGeneration(resp))
    /\ UNCHANGED <<aux, kind, nItems, streaming, acc, opened, closes, requests, sinkLog>>

\* createCompletion: client.CreateCompletion returns resp or err.
createCompletion(resp, err) ==
    /\ pc = "collect"
    /\ kind = "completion"
    /\ provider' = Append(provider, [item |-> idx, op |-> "Create", err |-> err,
                                     resp |-> IF err = Nil THEN resp ELSE NoResponse])
    /\ IF err /= Nil
       THEN GenerateFail(err)
       ELSE IF Len(resp.Choices) = 0
            THEN GenerateFail(ErrEmptyResponse)
            ELSE GenerateCollect(CompletionGeneration(resp))
    /\ UNCHANGED <<aux, kind, nItems, streaming, acc, opened, closes, requests, sinkLog>>

\* createChatCompletion: client.CreateChatCompletion returns resp or err.  The
\* function-call pointer of the first choice is dereferenced unchecked when the
\* finish reason is the function-call value: a nil pointer panics.
createChatCompletion(resp, err) ==
    /\ pc = "collect"
    /\ kind = "chat"
    /\ provider' = Append(provider, [item |-> idx, op |-> "Create", err |-> err,
                                     resp |-> IF err = Nil THEN resp ELSE NoResponse])
    /\ IF err /= Nil
       THEN GenerateFail(err)
       ELSE IF Len(resp.Choices) = 0
            THEN GenerateFail(ErrEmptyResponse)
            ELSE IF /\ resp.Choices[1].FinishReason = FinishReasonFunctionCall
                    /\ resp.Choices[1].Message.FunctionCall = <<>>
                 THEN GeneratePanic
                 ELSE GenerateCollect(ChatGeneration(resp))
    /\ UNCHANGED <<aux, kind, nItems, streaming, acc, opened, closes, requests, sinkLog>>

Next ==
    \/ \E n \in 0..MaxItems, stream \in BOOLEAN : Generate(n, stream)
    \/ GenerateLoop
    \/ GenerateReturn
    \/ \E err \in {Nil} \cup ProviderErrors : StreamOpen(err)
    \/ \E err \in ProviderErrors : StreamRecvError(err)
    \/ StreamRecvEOF
    \/ \E resp \in CompletionStreamResponses, sinkErr \in {Nil} \cup SinkErrors :
          createCompletionStreamRecv(resp, sinkErr)
    \/ \E resp \in ChatStreamResponses, sinkErr \in {Nil} \cup SinkErrors :
          createChatCompletionStreamRecv(resp, sinkErr)
    \/ \E resp \in CompletionResponses : createCompletion(resp, Nil)
    \/ \E err \in ProviderErrors : createCompletion(NoResponse, err)
    \/ \E resp \in ChatResponses : createChatCompletion(resp, Nil)
    \/ \E err \in ProviderErrors : createChatCompletion(NoResponse, err)

Spec == Init /\ [][Next]_vars

----------------------------------------------------------------------------
\* The single-turn Call.

\* A faulty CallResult: a failure of Generate is reported as an empty response.
CallResult_emptyResponse(k, r) ==
    IF r.err /= Nil \/ Len(r.generations) = 0
    THEN [value |-> IF k = "completion" THEN "" ELSE <<>>, err |-> ErrEmptyResponse]
    ELSE [value |-> IF k = "completion" THEN r.generations[1].Text
                    ELSE r.generations[1].Message,
          err |-> Nil]

\* What Call makes of Generate's return values: the error as it is; the
\* empty-response error when there is no record; else the first record's Text
\* (LLM.Call) or Message (Chat.Call).
CallResult(k, r) ==
    IF r.err /= Nil
    THEN [value |-> IF k = "completion" THEN "" ELSE <<>>, err |-> r.err]
    ELSE IF Len(r.generations) = 0
    THEN [value |-> IF k = "completion" THEN "" ELSE <<>>, err |-> ErrEmptyResponse]
    ELSE [value |-> IF k = "completion" THEN r.generations[1].Text
                    ELSE r.generations[1].Message,
          err |-> Nil]

\* Call: Generate is called with the one prompt, or the one message list, and
\* the caller's options.
Call(stream) ==
    /\ callState = <<>>
    /\ pc = "idle"
    /\ callState' = <<[pc |-> "generate"]>>
    /\ nItems' = 1
    /\ streaming' = stream
    /\ generations' = <<>>
    /\ idx' = 1
    /\ pc' = "loop"
    /\ UNCHANGED <<instVars, parserVars, requestVars, toolVars, issueVars, parked, kind, ret, acc,
                   opened, closes, inflight, requests, provider, sinkLog, log>>

\* Generate has returned to Call, and Call returns.
CallReturn ==
    /\ callState = <<[pc |-> "generate"]>>
    /\ pc = "done"
    /\ callState' = <<[pc |-> "returned", ret |-> CallResult(kind, ret)]>>
    /\ UNCHANGED <<genVars, instVars, parserVars, requestVars, toolVars, issueVars, parked>>

NextCall ==
    \/ \E stream \in BOOLEAN : Call(stream)
    \/ CallReturn
    \/ GenerateLoop
    \/ GenerateReturn
    \/ \E err \in {Nil} \cup ProviderErrors : StreamOpen(err)
    \/ \E err \in ProviderErrors : StreamRecvError(err)
    \/ StreamRecvEOF
    \/ \E resp \in CompletionStreamResponses, sinkErr \in {Nil} \cup SinkErrors :
          createCompletionStreamRecv(resp, sinkErr)
    \/ \E resp \in ChatStreamResponses, sinkErr \in {Nil} \cup SinkErrors :
          createChatCompletionStreamRecv(resp, sinkErr)
    \/ \E resp \in CompletionResponses : createCompletion(resp, Nil)
    \/ \E err \in ProviderErrors : createCompletion(NoResponse, err)
    \/ \E resp \in ChatResponses : createChatCompletion(resp, Nil)
    \/ \E err \in ProviderErrors : createChatCompletion(NoResponse, err)

SpecCall == Init /\ [][NextCall]_vars

----------------------------------------------------------------------------
\* Two goroutines calling Generate on one instance.

\* The locals and the histories of the Generate call of the goroutine that is
\* running.
CurrentFrame ==
    [pc |-> pc, nItems |-> nItems, streaming |-> streaming, idx |-> idx,
     generations |-> generations, ret |-> ret,
     output |-> output, finishReason |-> finishReason, functionCall |-> functionCall,
     opened |-> opened, closes |-> closes, inflight |-> inflight,
     requests |-> requests, provider |-> provider, sinkLog |-> sinkLog, log |-> log]

\* A faulty Switch: the accumulated text is not a local of the call but is
\* kept in one place for both goroutines.
Switch_shared ==
    /\ parked' = CurrentFrame
    /\ pc' = parked.pc
    /\ nItems' = parked.nItems
    /\ streaming' = parked.streaming
    /\ idx' = parked.idx
    /\ generations' = parked.generations
    /\ ret' = parked.ret
    /\ output' = output
    /\ finishReason' = parked.finishReason
    /\ functionCall' = parked.functionCall
    /\ opened' = parked.opened
    /\ closes' = parked.closes
    /\ inflight' = parked.inflight
    /\ requests' = parked.requests
    /\ provider' = parked.provider
    /\ sinkLog' = parked.sinkLog
    /\ log' = parked.log
    /\ UNCHANGED <<kind, callState, instVars, parserVars, requestVars, toolVars, issueVars>>

\* The scheduler takes the running goroutine off and puts the other one on:
\* each works on the locals of its own Generate call; the instance is the one
\* thing they have in common.  A panic unwinds the goroutine it happened in;
\* the scheduler goes on running the other one.
Switch ==
    /\ parked' = CurrentFrame
    /\ pc' = parked.pc
    /\ nItems' = parked.nItems
    /\ streaming' = parked.streaming
    /\ idx' = parked.idx
    /\ generations' = parked.generations
    /\ ret' = parked.ret
    /\ output' = parked.output
    /\ finishReason' = parked.finishReason
    /\ functionCall' = parked.functionCall
    /\ opened' = parked.opened
    /\ closes' = parked.closes
    /\ inflight' = parked.inflight
    /\ requests' = parked.requests
    /\ provider' = parked.provider
    /\ sinkLog' = parked.sinkLog
    /\ log' = parked.log
    /\ UNCHANGED <<kind, callState, instVars, parserVars, requestVars, toolVars, issueVars>>

\* What the provider answers to the two goroutines: for a stream, a fragment,
\* a closing fragment, and (chat) a function call; for a single response, one
\* choice.
ConcurrentCompletionDeltas ==
    {[Choices |-> <<[Text |-> "a", FinishReason |-> ""]>>],
     [Choices |-> <<[Text |-> "b", FinishReason |-> "stop"]>>]}

ConcurrentChatDeltas ==
    {[Choices |-> <<[Delta |-> [Content |-> "a", FunctionCall |-> <<>>],
                     FinishReason |-> ""]>>],
     [Choices |-> <<[Delta |-> [Content |-> "", FunctionCall |->
                                   <<[Name |-> "f", Arguments |-> "{"]>>],
                     FinishReason |-> FinishReasonFunctionCall]>>]}

ConcurrentCompletionResponses ==
    {r \in CompletionResponses :
        /\ Len(r.Choices) = 1
        /\ r.Choices[1] = [Text |-> "a", FinishReason |-> "stop"]}

ConcurrentChatResponses ==
    {r \in ChatResponses :
        /\ Len(r.Choices) = 1
        /\ r.Choices[1].FinishReason = FinishReasonFunctionCall}

NextConcurrent ==
    \/ Switch
    \/ \E stream \in BOOLEAN : Generate(1, stream)
    \/ GenerateLoop
    \/ GenerateReturn
    \/ \E err \in {Nil, "transport error"} : StreamOpen(err)
    \/ StreamRecvError("context canceled")
    \/ StreamRecvEOF
    \/ \E resp \in ConcurrentCompletionDeltas, sinkErr \in {Nil} \cup SinkErrors :
          createCompletionStreamRecv(resp, sinkErr)
    \/ \E resp \in ConcurrentChatDeltas, sinkErr \in {Nil} \cup SinkErrors :
          createChatCompletionStreamRecv(resp, sinkErr)
    \/ \E resp \in ConcurrentCompletionResponses : createCompletion(resp, Nil)
    \/ createCompletion(NoResponse, "transport error")
    \/ \E resp \in ConcurrentChatResponses : createChatCompletion(resp, Nil)
    \/ createChatCompletion(NoResponse, "transport error")

SpecConcurrent == Init /\ [][NextConcurrent]_vars

----------------------------------------------------------------------------
\* The model a request names, and CreateEmbedding.

MaxTexts == 2
MaxVectors == 2

\* Per-call model overrides (llms.WithModel); "" is a call without one.
Overrides == {"", "gpt-4"}

\* Generate's choice of the request's model: opts.Model, the instance's model
\* field when that is empty.
RequestModel(optsModel, instModel) ==
    IF optsModel = "" THEN instModel ELSE optsModel

\* Generate up to the request it builds, as far as the model is concerned.
GenerateRequest(override) ==
    /\ ipc = "ready"
    /\ built = <<>>
    /\ built' = <<[override |-> override, Model |-> RequestModel(override, model)]>>
    /\ UNCHANGED <<ctor, envModel, optModel, model, ipc, embCall, embRequests,
                   embResponse, embRet>>
    /\ UNCHANGED <<genVars, outerVars, issueVars, parserVars, requestVars, toolVars>>

\* The table from embedding model names to the provider's model identifiers.
stringToEmbeddingModel ==
    ("text-embedding-ada-002" :> "AdaEmbeddingV2")
        @@ ("text-similarity-ada-001" :> "AdaSimilarity")

\* Model names CreateEmbedding is called with.
EmbeddingModelNames == {"", "text-embedding-ada-002", "not-a-real-model"}

\* Input texts: every sequence of at most MaxTexts texts.
RECURSIVE SeqsUpTo(_, _)
SeqsUpTo(S, n) ==
    IF n = 0 THEN {<<>>}
    ELSE SeqsUpTo(S, n - 1)
             \cup {Append(q, x) : q \in {r \in SeqsUpTo(S, n - 1) : Len(r) = n - 1},
                                   x \in S}

InputTexts == SeqsUpTo({"t1", "t2"}, MaxTexts)

\* float32 components and their conversion to float64.
Float32s == {[bits |-> 32, val |-> 1], [bits |-> 32, val |-> -2]}

float64(x) == [bits |-> 64, val |-> x.val]

\* openai.Embedding: the field CreateEmbedding reads.
Embeddings ==
    {[Embedding |-> v] :
        v \in {<<>>, <<[bits |-> 32, val |-> 1]>>,
               <<[bits |-> 32, val |-> -2], [bits |-> 32, val |-> 1]>>}}

\* resp.Data of client.CreateEmbeddings.
EmbeddingData == SeqsUpTo(Embeddings, MaxVectors)

\* The request CreateEmbedding issues for the looked-up name.
EmbeddingRequest(name, inputTexts) ==
    [Model |-> stringToEmbeddingModel[name], Input |-> inputTexts]

\* A faulty CreateEmbedding: the request is issued before the name is looked up.
CreateEmbedding_requestFirst(m, inputTexts) ==
    /\ ipc = "ready"
    /\ embCall = <<>>
    /\ embCall' = <<[model |-> m, inputTexts |-> inputTexts]>>
    /\ LET name == IF m = "" THEN defaultEmbeddingModel ELSE m
       IN /\ embRequests' =
                Append(embRequests,
                       [Model |-> IF name \in DOMAIN stringToEmbeddingModel
                                  THEN stringToEmbeddingModel[name] ELSE "",
                        Input |-> inputTexts])
          /\ IF name \notin DOMAIN stringToEmbeddingModel
             THEN /\ embRet' = <<[embeddings |-> <<>>,
                                  err |-> ErrUnexpectedEmbeddingModel]>>
                  /\ ipc' = "returned"
             ELSE /\ ipc' = "embedding"
                  /\ UNCHANGED embRet
    /\ UNCHANGED <<ctor, envModel, optModel, model, built, embResponse>>
    /\ UNCHANGED <<genVars, outerVars, issueVars, parserVars, requestVars, toolVars>>

\* CreateEmbedding up to its provider call: the default name, the lookup, and
\* the one request for all the texts.
CreateEmbedding(m, inputTexts) ==
    /\ ipc = "ready"
    /\ embCall = <<>>
    /\ embCall' = <<[model |-> m, inputTexts |-> inputTexts]>>
    /\ LET name == IF m = "" THEN defaultEmbeddingModel ELSE m
       IN IF name \notin DOMAIN stringToEmbeddingModel
          THEN /\ embRet' = <<[embeddings |-> <<>>,
                               err |-> ErrUnexpectedEmbeddingModel]>>
               /\ ipc' = "returned"
               /\ UNCHANGED embRequests
          ELSE /\ embRequests' = Append(embRequests,
                                        EmbeddingRequest(name, inputTexts))
               /\ ipc' = "embedding"
               /\ UNCHANGED embRet
    /\ UNCHANGED <<ctor, envModel, optModel, model, built, embResponse>>
    /\ UNCHANGED <<genVars, outerVars, issueVars, parserVars, requestVars, toolVars>>

\* A faulty EmbeddingResult: the counts are not compared.
EmbeddingResult_unchecked(inputTexts, data) ==
    IF Len(data) = 0 THEN [embeddings |-> <<>>, err |-> ErrEmptyResponse]
    ELSE [embeddings |-> [i \in 1..Len(data) |->
                             [j \in 1..Len(data[i].Embedding) |->
                                 float64(data[i].Embedding[j])]],
          err |-> Nil]

\* A faulty EmbeddingResult: the counts are compared before the emptiness test.
EmbeddingResult_lengthFirst(inputTexts, data) ==
    IF Len(inputTexts) /= Len(data)
    THEN [embeddings |-> <<>>, err |-> ErrUnexpectedResponseLength]
    ELSE IF Len(data) = 0 THEN [embeddings |-> <<>>, err |-> ErrEmptyResponse]
    ELSE [embeddings |-> [i \in 1..Len(data) |->
                             [j \in 1..Len(data[i].Embedding) |->
                                 float64(data[i].Embedding[j])]],
          err |-> Nil]

\* What CreateEmbedding returns for the provider's data: the two checks, then
\* the conversion of every component of every vector.
EmbeddingResult(inputTexts, data) ==
    IF Len(data) = 0 THEN [embeddings |-> <<>>, err |-> ErrEmptyResponse]
    ELSE IF Len(inputTexts) /= Len(data)
    THEN [embeddings |-> <<>>, err |-> ErrUnexpectedResponseLength]
    ELSE [embeddings |-> [i \in 1..Len(data) |->
                             [j \in 1..Len(data[i].Embedding) |->
                                 float64(data[i].Embedding[j])]],
          err |-> Nil]

\* client.CreateEmbeddings returns, and CreateEmbedding with it.
CreateEmbeddingsReturn(data, err) ==
    /\ ipc = "embedding"
    /\ embResponse' = <<[data |-> data, err |-> err]>>
    /\ embRet' = <<IF err /= Nil THEN [embeddings |-> <<>>, err |-> err]
                   ELSE EmbeddingResult(embCall[1].inputTexts, data)>>
    /\ ipc' = "returned"
    /\ UNCHANGED <<ctor, envModel, optModel, model, built, embCall, embRequests>>
    /\ UNCHANGED <<genVars, outerVars, issueVars, parserVars, requestVars, toolVars>>

\* An instance built by any constructor, with whatever was configured.
InitInstance ==
    /\ kind \in Kinds
    /\ GenerateIdle
    /\ \E c \in Constructors(kind), env \in EnvModels, opt \in OptModels :
          Constructed(c, env, opt)
    /\ NewStructuredJSON(<<PromptSchema, NegativePromptSchema>>)
    /\ ChatGenerateCalled(<<>>, <<>>)
    /\ NewTool
    /\ GenerateCalled(<<>>, <<>>)

NextInstance ==
    \/ \E override \in Overrides : GenerateRequest(override)
    \/ \E m \in EmbeddingModelNames, inputTexts \in InputTexts :
          CreateEmbedding(m, inputTexts)
    \/ \E data \in EmbeddingData : CreateEmbeddingsReturn(data, Nil)
    \/ \E err \in ProviderErrors : CreateEmbeddingsReturn(<<>>, err)

SpecInstance == InitInstance /\ [][NextInstance]_vars

----------------------------------------------------------------------------
\* JSON text, as the sequence of its tokens, and encoding/json on it.

LBrace == [t |-> "{", v |-> ""]
RBrace == [t |-> "}", v |-> ""]
Colon == [t |-> ":", v |-> ""]
Comma == [t |-> ",", v |-> ""]
JSONString(str) == [t |-> "string", v |-> str]
JSONNumber == [t |-> "number", v |-> "1"]
JSONNull == [t |-> "null", v |-> ""]
ScalarKinds == {"string", "number", "null"}

\* The members of an object text: what stands between its braces.
Members(text) == SubSeq(text, 2, Len(text) - 1)

\* The text is an object: key : scalar members separated by commas.
ValidObject(text) ==
    /\ Len(text) >= 2
    /\ text[1] = LBrace
    /\ text[Len(text)] = RBrace
    /\ \/ Len(text) = 2
       \/ /\ Len(Members(text)) % 4 = 3
          /\ \A i \in 1..Len(Members(text)) :
                CASE i % 4 = 1 -> Members(text)[i].t = "string"
                  [] i % 4 = 2 -> Members(text)[i] = Colon
                  [] i % 4 = 3 -> Members(text)[i].t \in ScalarKinds
                  [] OTHER -> Members(text)[i] = Comma

\* json.Valid: one scalar or one object.
Valid(text) ==
    \/ Len(text) = 1 /\ text[1].t \in ScalarKinds
    \/ ValidObject(text)

\* json.Unmarshal([]byte(text), &parsed) with parsed a nil map[string]string:
\* a syntax error for invalid text; a top-level null leaves the map nil; any
\* other top-level scalar, and any member whose value is neither a string nor
\* null, is a type error; a null member is stored as ""; of two members with
\* one key the later one is kept.
Unmarshal(text) ==
    IF ~Valid(text)
    THEN [parsed |-> <<>>, err |-> <<[type |-> "SyntaxError"]>>]
    ELSE IF Len(text) = 1
    THEN [parsed |-> <<>>,
          err |-> IF text[1] = JSONNull THEN <<>>
                  ELSE <<[type |-> "UnmarshalTypeError", Value |-> text[1].t]>>]
    ELSE LET m == Members(text)
             n == (Len(m) + 1) \div 4
             key(i) == m[4 * i - 3].v
             val(i) == m[4 * i - 1]
             bad == {i \in 1..n : val(i).t \notin {"string", "null"}}
             last(k) == CHOOSE i \in 1..n :
                            key(i) = k /\ \A j \in 1..n : key(j) = k => j <= i
         IN [parsed |-> [k \in {key(i) : i \in 1..n} |->
                            IF val(last(k)).t = "string" THEN val(last(k)).v ELSE ""],
             err |-> IF bad = {} THEN <<>>
                     ELSE <<[type |-> "UnmarshalTypeError",
                             Value |-> val(CHOOSE i \in bad :
                                              \A j \in bad : i <= j).t]>>]

\* The keys and the values of the mappings that are encoded as text.
Keys == {"prompt", "negativePrompt"}
KeyOrder == <<"negativePrompt", "prompt">>
JSONValues == {JSONString("a cat"), JSONString(""), JSONNumber, JSONNull}
Mappings == UNION {[D -> JSONValues] : D \in SUBSET Keys}

RECURSIVE MarshalMembers(_, _)
MarshalMembers(M, ks) ==
    IF ks = <<>> THEN <<>>
    ELSE <<JSONString(Head(ks)), Colon, M[Head(ks)]>>
             \o (IF Tail(ks) = <<>> THEN <<>>
                 ELSE <<Comma>> \o MarshalMembers(M, Tail(ks)))

\* json.Marshal of a mapping: an object with the keys in sorted order.
Marshal(M) ==
    <<LBrace>> \o MarshalMembers(M, SelectSeq(KeyOrder, LAMBDA k : k \in DOMAIN M))
               \o <<RBrace>>

\* Texts that are not the encoding of a mapping: empty, cut short, a bare null,
\* a bare string, a key given twice.
OtherTexts ==
    {<<>>,
     <<LBrace, JSONString("prompt"), Colon>>,
     <<JSONNull>>,
     <<JSONString("a cat")>>,
     <<LBrace, JSONString("prompt"), Colon, JSONString("a cat"), Comma,
       JSONString("prompt"), Colon, JSONString(""), RBrace>>}

\* The texts handed to Parse.
Texts == {Marshal(M) : M \in Mappings} \cup OtherTexts

----------------------------------------------------------------------------
\* The structured-output parser.

ParseJSONError(text, reason) ==
    [type |-> "ParseJSONError", Text |-> text, Reason |-> reason]

RECURSIVE JoinKeys(_)
JoinKeys(ks) ==
    IF ks = <<>> THEN ""
    ELSE IF Tail(ks) = <<>> THEN Head(ks)
    ELSE Head(ks) \o " " \o JoinKeys(Tail(ks))

\* fmt.Sprintf("output is missing the following fields %v", missingKeys).
MissingReason(ks) ==
    "output is missing the following fields " \o "[" \o JoinKeys(ks) \o "]"

\* parse: the decoder's error as it is; else the declared names that are no
\* key of the decoded map, in schema order; a ParseJSONError when there are
\* any; else the decoded map.
parse(schema, text) ==
    LET d == Unmarshal(text)
        names == [i \in DOMAIN schema |-> schema[i].Name]
        missing == SelectSeq(names, LAMBDA k : k \notin DOMAIN d.parsed)
    IN IF d.err /= <<>> THEN [value |-> <<>>, err |-> d.err]
       ELSE IF Len(missing) > 0
       THEN [value |-> <<>>,
             err |-> <<ParseJSONError(text, MissingReason(missing))>>]
       ELSE [value |-> <<d.parsed>>, err |-> <<>>]

\* "\t" + fmt.Sprintf(_structuredJSONLineTemplate, rs.Name, "string",
\* rs.Description).
JSONLine(rs) ==
    "\t" \o "\"" \o rs.Name \o "\": " \o "string" \o " // " \o rs.Description \o "\n"

RECURSIVE JSONLines(_)
JSONLines(schema) ==
    IF schema = <<>> THEN "" ELSE JSONLine(Head(schema)) \o JSONLines(Tail(schema))

\* fmt.Sprintf(_structuredJSONFormatInstructionTemplate, jsonLines).
FormatInstruction(lines) ==
    "your input should strict follow json schema: \n\n{\n" \o lines \o "}\n"

\* GetFormatInstructions: one line per declared field, in the fixed template.
GetFormatInstructions(schema) ==
    [value |-> <<FormatInstruction(JSONLines(schema))>>, err |-> <<>>]

\* A faulty FieldPresent: an empty value counts as a missing key.
FieldPresent_nonEmpty(m, name) == name \in DOMAIN m /\ m[name] /= ""

\* The loop's test "_, ok := parsed[rs.Name]".
FieldPresent(m, name) == name \in DOMAIN m

\* A faulty Frame: the locals live in the parser, one copy for all callers.
Frame_shared(c) == "c1"

\* Where the locals of caller c's invocation live: in its own frame.
Frame(c) == c

\* A faulty ParseStart: a member that is neither a string nor null is no
\* error, and decoding goes on.
ParseStart_lenient(c, op, text) ==
    /\ ppc[c] = "idle"
    /\ pcall' = [pcall EXCEPT ![c] = <<[op |-> op, text |-> text]>>]
    /\ LET d == Unmarshal(text)
           typeError == d.err /= <<>> /\ d.err[1].type = "UnmarshalTypeError"
       IN IF d.err /= <<>> /\ ~(typeError /\ Len(text) > 1)
          THEN /\ presult' = [presult EXCEPT ![c] = <<[value |-> <<>>, err |-> d.err]>>]
               /\ ppc' = [ppc EXCEPT ![c] = "done"]
               /\ UNCHANGED <<parsed, missingKeys, cursor>>
          ELSE /\ parsed' = [parsed EXCEPT ![c] = d.parsed]
               /\ missingKeys' = [missingKeys EXCEPT ![Frame(c)] = <<>>]
               /\ cursor' = [cursor EXCEPT ![c] = 1]
               /\ ppc' = [ppc EXCEPT ![c] = "check"]
               /\ UNCHANGED presult
    /\ UNCHANGED <<schemas, jsonLines, genVars, outerVars, issueVars, instVars,
                   requestVars, toolVars>>

\* Parse or ParseWithPrompt up to parse's loop: the text is decoded; a decode
\* error is returned as it is.
ParseStart(c, op, text) ==
    /\ ppc[c] = "idle"
    /\ pcall' = [pcall EXCEPT ![c] = <<[op |-> op, text |-> text]>>]
    /\ LET d == Unmarshal(text)
       IN IF d.err /= <<>>
          THEN /\ presult' = [presult EXCEPT ![c] = <<[value |-> <<>>, err |-> d.err]>>]
               /\ ppc' = [ppc EXCEPT ![c] = "done"]
               /\ UNCHANGED <<parsed, missingKeys, cursor>>
          ELSE /\ parsed' = [parsed EXCEPT ![c] = d.parsed]
               /\ missingKeys' = [missingKeys EXCEPT ![Frame(c)] = <<>>]
               /\ cursor' = [cursor EXCEPT ![c] = 1]
               /\ ppc' = [ppc EXCEPT ![c] = "check"]
               /\ UNCHANGED presult
    /\ UNCHANGED <<schemas, jsonLines, genVars, outerVars, issueVars, instVars,
                   requestVars, toolVars>>

\* One turn of parse's loop over the schema list.
ParseCheckField(c) ==
    /\ ppc[c] = "check"
    /\ cursor[c] <= Len(schemas)
    /\ missingKeys' =
          IF FieldPresent(parsed[c], schemas[cursor[c]].Name) THEN missingKeys
          ELSE [missingKeys EXCEPT ![Frame(c)] = Append(@, schemas[cursor[c]].Name)]
    /\ cursor' = [cursor EXCEPT ![c] = @ + 1]
    /\ UNCHANGED <<schemas, ppc, pcall, parsed, jsonLines, presult, genVars, outerVars, issueVars, instVars,
                   requestVars, toolVars>>

\* parse's loop is over: a ParseJSONError when keys are missing, the decoded
\* map otherwise; the locals go out of scope.
ParseReturn(c) ==
    /\ ppc[c] = "check"
    /\ cursor[c] > Len(schemas)
    /\ presult' =
          [presult EXCEPT ![c] =
              IF Len(missingKeys[Frame(c)]) > 0
              THEN <<[value |-> <<>>,
                      err |-> <<ParseJSONError(pcall[c][1].text,
                                               MissingReason(missingKeys[Frame(c)]))>>]>>
              ELSE <<[value |-> <<parsed[c]>>, err |-> <<>>]>>]
    /\ ppc' = [ppc EXCEPT ![c] = "done"]
    /\ parsed' = [parsed EXCEPT ![c] = <<>>]
    /\ missingKeys' = [missingKeys EXCEPT ![Frame(c)] = <<>>]
    /\ cursor' = [cursor EXCEPT ![c] = 1]
    /\ UNCHANGED <<schemas, pcall, jsonLines, genVars, outerVars, issueVars, instVars,
                   requestVars, toolVars>>

\* GetFormatInstructions up to its loop.
GetFormatInstructionsStart(c) ==
    /\ ppc[c] = "idle"
    /\ pcall' = [pcall EXCEPT ![c] = <<[op |-> "GetFormatInstructions", text |-> <<>>]>>]
    /\ jsonLines' = [jsonLines EXCEPT ![Frame(c)] = ""]
    /\ cursor' = [cursor EXCEPT ![c] = 1]
    /\ ppc' = [ppc EXCEPT ![c] = "lines"]
    /\ UNCHANGED <<schemas, parsed, missingKeys, presult, genVars, outerVars, issueVars, instVars,
                   requestVars, toolVars>>

\* One turn of GetFormatInstructions's loop over the schema list.
GetFormatInstructionsLine(c) ==
    /\ ppc[c] = "lines"
    /\ cursor[c] <= Len(schemas)
    /\ jsonLines' = [jsonLines EXCEPT ![Frame(c)] = @ \o JSONLine(schemas[cursor[c]])]
    /\ cursor' = [cursor EXCEPT ![c] = @ + 1]
    /\ UNCHANGED <<schemas, ppc, pcall, parsed, missingKeys, presult, genVars, outerVars, issueVars, instVars,
                   requestVars, toolVars>>

\* GetFormatInstructions's loop is over: the lines are wrapped and returned.
GetFormatInstructionsReturn(c) ==
    /\ ppc[c] = "lines"
    /\ cursor[c] > Len(schemas)
    /\ presult' = [presult EXCEPT ![c] =
                      <<[value |-> <<FormatInstruction(jsonLines[Frame(c)])>>,
                         err |-> <<>>]>>]
    /\ ppc' = [ppc EXCEPT ![c] = "done"]
    /\ jsonLines' = [jsonLines EXCEPT ![Frame(c)] = ""]
    /\ cursor' = [cursor EXCEPT ![c] = 1]
    /\ UNCHANGED <<schemas, pcall, parsed, missingKeys, genVars, outerVars, issueVars, instVars,
                   requestVars, toolVars>>

\* A parser built from a schema list, shared by the callers.
InitParser ==
    /\ kind = "chat"
    /\ GenerateIdle
    /\ Constructed("NewChat", "", <<>>)
    /\ \E schema \in Schemas : NewStructuredJSON(schema)
    /\ ChatGenerateCalled(<<>>, <<>>)
    /\ NewTool
    /\ GenerateCalled(<<>>, <<>>)

NextParser ==
    \/ \E c \in Callers, op \in {"Parse", "ParseWithPrompt"}, text \in Texts :
          ParseStart(c, op, text)
    \/ \E c \in Callers : ParseCheckField(c)
    \/ \E c \in Callers : ParseReturn(c)
    \/ \E c \in Callers : GetFormatInstructionsStart(c)
    \/ \E c \in Callers : GetFormatInstructionsLine(c)
    \/ \E c \in Callers : GetFormatInstructionsReturn(c)

SpecParser == InitParser /\ [][NextParser]_vars

----------------------------------------------------------------------------
\* The chat request: declared functions and message translation.

MaxMessages == 2
MaxFunctions == 2

ChatMessageTypes == {"system", "ai", "human", "generic", "function"}

\* The dynamic type of a message held by value, by its GetType.
ValueType(t) ==
    CASE t = "system" -> "schema.SystemChatMessage"
      [] t = "ai" -> "schema.AIChatMessage"
      [] t = "human" -> "schema.HumanChatMessage"
      [] t = "generic" -> "schema.GenericChatMessage"
      [] t = "function" -> "schema.FunctionChatMessage"

\* schema.ChatMessage values: the dynamic type behind the interface, what
\* GetType and GetContent return, and the FunctionCall pointer, which only an
\* AIChatMessage holds.  An AI message is held by value or, as Chat.Call
\* returns it, by pointer.
ChatMessages ==
    {[dynamic |-> ValueType(t), type |-> t, content |-> "text of " \o t,
      functionCall |-> <<>>] : t \in ChatMessageTypes}
        \cup {[dynamic |-> d, type |-> "ai", content |-> "",
               functionCall |-> <<[Name |-> "f", Arguments |-> "{}"]>>] :
                 d \in {"schema.AIChatMessage", "*schema.AIChatMessage"}}
        \cup {[dynamic |-> "*schema.AIChatMessage", type |-> "ai",
               content |-> "text of ai", functionCall |-> <<>>]}

\* One message-set: at most MaxMessages messages.
MessageSets == SeqsUpTo(ChatMessages, MaxMessages)

Reverse(q) == [i \in 1..Len(q) |-> q[Len(q) + 1 - i]]

\* The messageSets argument: none, one set, or a set and then its reverse.
MessageSetLists ==
    {<<>>} \cup {<<q>> : q \in MessageSets} \cup {<<q, Reverse(q)>> : q \in MessageSets}

\* llms.FunctionDefinition values and the opts.Functions lists.
FunctionDefinitions ==
    {[type |-> "llms.FunctionDefinition", Name |-> "f", Description |-> "first",
      Parameters |-> "{}"],
     [type |-> "llms.FunctionDefinition", Name |-> "g", Description |-> "",
      Parameters |-> "{\"type\":\"object\"}"]}

FunctionLists == SeqsUpTo(FunctionDefinitions, MaxFunctions)

FunctionCallBehaviorAuto == "auto"

\* request.Functions after the loop over opts.Functions.
RequestFunctions(functions) ==
    [i \in 1..Len(functions) |->
        [type |-> "openai.FunctionDefinition",
         Name |-> functions[i].Name,
         Description |-> functions[i].Description,
         Parameters |-> functions[i].Parameters]]

\* A faulty RequestFunctionCall: the flag is set whether or not a function is
\* declared.
RequestFunctionCall_always(functions) == <<FunctionCallBehaviorAuto>>

\* request.FunctionCall after the loop over opts.Functions: set in the loop
\* body, so left nil when nothing is declared.
RequestFunctionCall(functions) ==
    IF Len(functions) = 0 THEN <<>> ELSE <<FunctionCallBehaviorAuto>>

\* The switch on m.GetType(): the provider role of a message.
ChatMessageRole(typ) ==
    CASE typ = "system" -> "system"
      [] typ = "ai" -> "assistant"
      [] typ = "human" -> "user"
      [] typ = "generic" -> "user"
      [] typ = "function" -> "function"
      [] OTHER -> ""

\* The openai.ChatCompletionMessage built for one message.
TranslateMessage(m) ==
    [Role |-> ChatMessageRole(m.type),
     Content |-> m.content,
     FunctionCall |-> IF /\ m.type = "ai"
                         /\ m.dynamic = "schema.AIChatMessage"
                         /\ m.functionCall /= <<>>
                      THEN <<[Name |-> m.functionCall[1].Name,
                              Arguments |-> m.functionCall[1].Arguments]>>
                      ELSE <<>>]

\* openaiMessageSets: every message of every set, in place.
TranslateMessageSets(messageSets) ==
    [i \in 1..Len(messageSets) |->
        [j \in 1..Len(messageSets[i]) |-> TranslateMessage(messageSets[i][j])]]

\* Chat.Generate: the loop over opts.Functions.
ChatGenerateFunctions ==
    /\ cpc = "called"
    /\ chatRequest' = [chatRequest EXCEPT
                          !.Functions = RequestFunctions(chatCall.Functions),
                          !.FunctionCall = RequestFunctionCall(chatCall.Functions)]
    /\ cpc' = "functions"
    /\ UNCHANGED <<chatCall, genVars, outerVars, issueVars, instVars, parserVars, toolVars>>

\* Chat.Generate: the translation of the message sets.
ChatGenerateTranslate ==
    /\ cpc = "functions"
    /\ chatRequest' = [chatRequest EXCEPT
                          !.messageSets = TranslateMessageSets(chatCall.messageSets)]
    /\ cpc' = "translated"
    /\ UNCHANGED <<chatCall, genVars, outerVars, issueVars, instVars, parserVars, toolVars>>

\* Chat.Generate called on a chat instance.
InitChatRequest ==
    /\ kind = "chat"
    /\ GenerateIdle
    /\ Constructed("NewChat", "", <<>>)
    /\ NewStructuredJSON(<<PromptSchema, NegativePromptSchema>>)
    /\ NewTool
    /\ GenerateCalled(<<>>, <<>>)
    /\ \E messageSets \in MessageSetLists, functions \in FunctionLists :
          ChatGenerateCalled(messageSets, functions)

NextChatRequest ==
    \/ ChatGenerateFunctions
    \/ ChatGenerateTranslate

SpecChatRequest == InitChatRequest /\ [][NextChatRequest]_vars

----------------------------------------------------------------------------
\* The stable-diffusion Tool.

\* Input that is no JSON text: bare words, and the '|' between them.
Bare(str) == [t |-> "text", v |-> str]
Pipe == [t |-> "|", v |-> ""]

\* "prompt | negative prompt", and a prompt alone.
PipeInputs ==
    {<<Bare("photo of a man"), Pipe, Bare("deformed")>>,
     <<Bare("photo of a man")>>}

\* The inputs handed to Call.
ToolInputs == Texts \cup PipeInputs

\* DefaultCreateOptions: where images are written and where they are served.
DefaultCreateOptions == [OutputPath |-> "./images", StaticPath |-> "/static/images"]

\* filepath.Clean on the directories of the options.
Clean(path) == IF path = "./images" THEN "images" ELSE path

\* filepath.Join(dir, name).
Join(dir, name) == Clean(dir) \o "/" \o name

\* time.Now().UnixNano() at the time of the write.
Clock == {1, 2}

\* fmt.Sprintf("%d.png", now).
ImageName(now) == ToString(now) \o ".png"

\* fmt.Errorf("stable-diffusion: invalid input format, %v", err).
InvalidInputFormat(err) ==
    [type |-> "errors.errorString",
     Format |-> "stable-diffusion: invalid input format, %v",
     Arg |-> err]

\* The payload Call builds from the parsed values.
Payload(valuesMap) ==
    [Prompt |-> valuesMap["prompt"],
     NegativePrompt |-> valuesMap["negativePrompt"],
     Steps |-> 20,
     Width |-> 512,
     Height |-> 512,
     SamplerName |-> "DPM++ SDE Karras"]

\* The request Text2ImgWithCustomPrompt sends.
Txt2ImgRequest(payload) ==
    [Method |-> "POST", Path |-> "/sdapi/v1/txt2img", Body |-> payload]

\* What the image service does with a request: the transport fails; or a body
\* comes back, decoded with or without an error into a response with or
\* without images.
ServiceOutcomes ==
    {[do |-> <<[type |-> "url.Error"]>>, Images |-> <<>>, unmarshal |-> <<>>],
     [do |-> <<>>, Images |-> <<"aGk=">>, unmarshal |-> <<>>],
     [do |-> <<>>, Images |-> <<"">>, unmarshal |-> <<>>],
     [do |-> <<>>, Images |-> <<"!">>, unmarshal |-> <<>>],
     [do |-> <<>>, Images |-> <<"aGk=">>, unmarshal |-> <<[type |-> "UnmarshalTypeError"]>>],
     [do |-> <<>>, Images |-> <<>>, unmarshal |-> <<>>],
     [do |-> <<>>, Images |-> <<>>, unmarshal |-> <<[type |-> "SyntaxError"]>>]}

\* base64.StdEncoding.DecodeString on the images the service sends.
DecodeString(str) ==
    CASE str = "aGk=" -> [data |-> "hi", err |-> <<>>]
      [] str = "" -> [data |-> "", err |-> <<>>]
      [] OTHER -> [data |-> "", err |-> <<[type |-> "base64.CorruptInputError"]>>]

\* What the file system does: whether the output directory exists, and the
\* errors of os.MkdirAll and os.WriteFile.
FileSystems ==
    {[exists |-> TRUE, mkdir |-> <<>>, write |-> <<>>],
     [exists |-> TRUE, mkdir |-> <<>>, write |-> <<[type |-> "fs.PathError", Op |-> "open"]>>],
     [exists |-> FALSE, mkdir |-> <<>>, write |-> <<>>],
     [exists |-> FALSE, mkdir |-> <<>>, write |-> <<[type |-> "fs.PathError", Op |-> "open"]>>],
     [exists |-> FALSE, mkdir |-> <<[type |-> "fs.PathError", Op |-> "mkdir"]>>, write |-> <<>>]}

\* fmt.Sprintf("![generated image](%s)", staticPath).
GeneratedImage(staticPath) == "![generated image](" \o staticPath \o ")"

\* Call, up to the request: the input is parsed against the two declared
\* fields; a parse error is returned wrapped and nothing is sent; otherwise
\* the payload is sent to the service.
ToolCall(input) ==
    /\ tpc = "idle"
    /\ tinput' = <<input>>
    /\ LET values == parse(schemas, input)
       IN IF values.err /= <<>>
          THEN /\ tret' = <<[result |-> "",
                             err |-> <<InvalidInputFormat(values.err[1])>>]>>
               /\ tpc' = "returned"
               /\ UNCHANGED thttp
          ELSE /\ thttp' = Append(thttp, Txt2ImgRequest(Payload(values.value[1])))
               /\ tpc' = "request"
               /\ UNCHANGED tret
    /\ UNCHANGED <<tresp, tfiles, genVars, outerVars, issueVars, instVars, parserVars, requestVars>>

\* Text2ImgWithCustomPrompt returns and Call decodes the image: a transport
\* error is returned as it is; res.Images[0] of a response without images is
\* an index out of range; a decoding error of the body or of the image is
\* returned as it is.
Text2ImgReturn(outcome) ==
    /\ tpc = "request"
    /\ tresp' = <<outcome>>
    /\ IF outcome.do /= <<>>
       THEN /\ tret' = <<[result |-> "", err |-> outcome.do]>>
            /\ tpc' = "returned"
       ELSE IF outcome.Images = <<>>
       THEN /\ tpc' = "panic"
            /\ UNCHANGED tret
       ELSE IF outcome.unmarshal /= <<>>
       THEN /\ tret' = <<[result |-> "", err |-> outcome.unmarshal]>>
            /\ tpc' = "returned"
       ELSE IF DecodeString(outcome.Images[1]).err /= <<>>
       THEN /\ tret' = <<[result |-> "", err |-> DecodeString(outcome.Images[1]).err]>>
            /\ tpc' = "returned"
       ELSE /\ tpc' = "write"
            /\ UNCHANGED tret
    /\ UNCHANGED <<tinput, thttp, tfiles, genVars, outerVars, issueVars, instVars, parserVars, requestVars>>

\* Call, from the decoded image on: the image is named after the clock, the
\* output directory is made when it is missing, the file is written, and the
\* markdown link to the static path is returned.
ToolWrite(now, fs) ==
    /\ tpc = "write"
    /\ LET data == DecodeString(tresp[1].Images[1]).data
           outputPath == Join(DefaultCreateOptions.OutputPath, ImageName(now))
           staticPath == Join(DefaultCreateOptions.StaticPath, ImageName(now))
           made == IF fs.exists THEN <<>>
                   ELSE <<[op |-> "MkdirAll",
                           path |-> Clean(DefaultCreateOptions.OutputPath),
                           err |-> fs.mkdir]>>
           wrote == <<[op |-> "WriteFile", path |-> outputPath, data |-> data,
                       err |-> fs.write]>>
       IN IF ~fs.exists /\ fs.mkdir /= <<>>
          THEN /\ tfiles' = tfiles \o made
               /\ tret' = <<[result |-> "", err |-> fs.mkdir]>>
          ELSE /\ tfiles' = tfiles \o made \o wrote
               /\ tret' = IF fs.write /= <<>>
                          THEN <<[result |-> "", err |-> fs.write]>>
                          ELSE <<[result |-> GeneratedImage(staticPath), err |-> <<>>]>>
    /\ tpc' = "returned"
    /\ UNCHANGED <<tinput, thttp, tresp, genVars, outerVars, issueVars, instVars, parserVars, requestVars>>

\* A Tool made by New with the default options.
InitTool ==
    /\ kind = "chat"
    /\ GenerateIdle
    /\ Constructed("NewChat", "", <<>>)
    /\ NewStructuredJSON(<<PromptSchema, NegativePromptSchema>>)
    /\ ChatGenerateCalled(<<>>, <<>>)
    /\ NewTool
    /\ GenerateCalled(<<>>, <<>>)

NextTool ==
    \/ \E input \in ToolInputs : ToolCall(input)
    \/ \E outcome \in ServiceOutcomes : Text2ImgReturn(outcome)
    \/ \E now \in Clock, fs \in FileSystems : ToolWrite(now, fs)

SpecTool == InitTool /\ [][NextTool]_vars

-----------------------------------------------------------------------------
\* The requests of one Generate call: built once from the options, then
\* handed to the client once per input item.

defaultMaxTokens == 1024

\* float64 option values and their conversion to the request's float32.
float32(x) == [bits |-> 32, val |-> x.val]

\* The fields of llms.CallOptions Generate reads.
OptionFields ==
    {"Model", "MaxTokens", "Temperature", "TopP", "StopWords", "N",
     "FrequencyPenalty", "PresencePenalty", "StreamingFunc", "Functions"}

\* opts before the options are applied: the zero value, and for Chat.Generate
\* MaxTokens preset to defaultMaxTokens. StreamingFunc is TRUE for a non-nil
\* function.
ZeroOptions(k) ==
    [Model |-> "",
     MaxTokens |-> IF k = "chat" THEN defaultMaxTokens ELSE 0,
     Temperature |-> [bits |-> 64, val |-> 0],
     TopP |-> [bits |-> 64, val |-> 0],
     StopWords |-> <<>>,
     N |-> 0,
     FrequencyPenalty |-> [bits |-> 64, val |-> 0],
     PresencePenalty |-> [bits |-> 64, val |-> 0],
     StreamingFunc |-> FALSE,
     Functions |-> <<>>]

\* The options a caller passes, as the fields they set (besides Functions).
OptionChoices ==
    {[StreamingFunc |-> TRUE],
     [Model |-> "gpt-4", MaxTokens |-> 16],
     [Model |-> "gpt-4", MaxTokens |-> 16,
      Temperature |-> [bits |-> 64, val |-> 1],
      TopP |-> [bits |-> 64, val |-> 1],
      StopWords |-> <<"\n", "END">>,
      N |-> 2,
      FrequencyPenalty |-> [bits |-> 64, val |-> -2],
      PresencePenalty |-> [bits |-> 64, val |-> 2],
      StreamingFunc |-> TRUE]}

GivenOptions ==
    {[Functions |-> fns] : fns \in FunctionLists}
        \cup {o @@ [Functions |-> fns] : o \in OptionChoices, fns \in FunctionLists}

\* The loop "for _, opt := range options { opt(&opts) }".
ApplyOptions(k, given) ==
    [f \in OptionFields |-> IF f \in DOMAIN given THEN given[f] ELSE ZeroOptions(k)[f]]

\* The prompts of LLM.Generate and the input lists of either Generate.
PromptLists == SeqsUpTo({"first prompt", "second prompt"}, MaxItems)

InputItems(k) == IF k = "completion" THEN PromptLists ELSE MessageSetLists

\* What the range loop hands out: the prompts themselves, or for
\* Chat.Generate the translated message sets (openaiMessageSets).
LoopItems(k, items) == IF k = "completion" THEN items ELSE TranslateMessageSets(items)

\* The request literal, and for Chat.Generate the loop over opts.Functions.
BaseRequest(k, opts, instModel) ==
    LET common == [Model |-> RequestModel(opts.Model, instModel),
                   MaxTokens |-> opts.MaxTokens,
                   Temperature |-> float32(opts.Temperature),
                   TopP |-> float32(opts.TopP),
                   Stream |-> opts.StreamingFunc,
                   Stop |-> opts.StopWords,
                   N |-> opts.N,
                   FrequencyPenalty |-> float32(opts.FrequencyPenalty),
                   PresencePenalty |-> float32(opts.PresencePenalty)]
    IN  IF k = "completion"
        THEN common @@ [Prompt |-> ""]
        ELSE common @@ [Messages |-> <<>>,
                        Functions |-> RequestFunctions(opts.Functions),
                        FunctionCall |-> RequestFunctionCall(opts.Functions)]

\* The field the loop assigns: request.Prompt or request.Messages.
ItemField(k) == IF k = "completion" THEN "Prompt" ELSE "Messages"

\* "request.Prompt = prompt" / "request.Messages = msgs".
WithItem(k, req, item) == [req EXCEPT ![ItemField(k)] = item]

\* Generate up to its loop: the options applied and the request built.
GenerateBuild ==
    /\ rpc = "called"
    /\ request' = <<BaseRequest(kind, ApplyOptions(kind, gcall.options), model)>>
    /\ rpc' = "loop"
    /\ UNCHANGED <<gcall, ridx, issued, genVars, outerVars, instVars, parserVars,
                   requestVars, toolVars>>

\* A faulty GenerateIssue: the stop words are dropped from the request once it
\* has been sent.
GenerateIssue_consumed ==
    /\ rpc = "loop"
    /\ ridx <= Len(gcall.items)
    /\ LET sent == WithItem(kind, request[1], LoopItems(kind, gcall.items)[ridx])
       IN  /\ request' = <<[sent EXCEPT !.Stop = <<>>]>>
           /\ issued' = Append(issued, sent)
    /\ rpc' = "wait"
    /\ UNCHANGED <<gcall, ridx, genVars, outerVars, instVars, parserVars, requestVars,
                   toolVars>>

\* One turn of the loop, up to the client call: the item is assigned and the
\* request is passed by value to the collector, which passes it to the client
\* and waits for the answer.
GenerateIssue ==
    /\ rpc = "loop"
    /\ ridx <= Len(gcall.items)
    /\ LET sent == WithItem(kind, request[1], LoopItems(kind, gcall.items)[ridx])
       IN  /\ request' = <<sent>>
           /\ issued' = Append(issued, sent)
    /\ rpc' = "wait"
    /\ UNCHANGED <<gcall, ridx, genVars, outerVars, instVars, parserVars, requestVars,
                   toolVars>>

\* The collector returns: its error ends the call, otherwise the loop goes on.
GenerateOutcome(ok) ==
    /\ rpc = "wait"
    /\ IF ok
       THEN ridx' = ridx + 1 /\ rpc' = "loop"
       ELSE ridx' = ridx /\ rpc' = "failed"
    /\ UNCHANGED <<gcall, request, issued, genVars, outerVars, instVars, parserVars,
                   requestVars, toolVars>>

\* The loop is over: Generate returns the generations.
GenerateEnd ==
    /\ rpc = "loop"
    /\ ridx > Len(gcall.items)
    /\ rpc' = "returned"
    /\ UNCHANGED <<gcall, request, ridx, issued, genVars, outerVars, instVars,
                   parserVars, requestVars, toolVars>>

\* Generate called on either kind of instance with some input and options.
InitRequests ==
    /\ kind \in Kinds
    /\ GenerateIdle
    /\ Constructed(IF kind = "completion" THEN "New" ELSE "NewChat", "", <<>>)
    /\ NewStructuredJSON(<<PromptSchema, NegativePromptSchema>>)
    /\ ChatGenerateCalled(<<>>, <<>>)
    /\ NewTool
    /\ \E items \in InputItems(kind), given \in GivenOptions :
           GenerateCalled(items, given)

NextRequests ==
    \/ GenerateBuild
    \/ GenerateIssue
    \/ \E ok \in BOOLEAN : GenerateOutcome(ok)
    \/ GenerateEnd

SpecRequests == InitRequests /\ [][NextRequests]_vars

----------------------------------------------------------------------------
\* Reading the histories.

\* The deltas (responses with a nil error) stream.Recv returned for item i.
ItemDeltas(i) ==
    SelectSeq(provider, LAMBDA e : e.item = i /\ e.op = "Recv" /\ e.err = Nil)

\* The sink's invocations for item i.
ItemChunks(i) == SelectSeq(sinkLog, LAMBDA e : e.item = i)

\* The response client.Create(Chat)Completion returned for item i.
ItemResponse(i) ==
    SelectSeq(provider, LAMBDA e : e.item = i /\ e.op = "Create")[1].resp

RECURSIVE ConcatChunks(_)
ConcatChunks(s) == IF s = <<>> THEN "" ELSE Head(s).chunk \o ConcatChunks(Tail(s))

\* The text fragment of a delta's first choice.
DeltaText(resp) ==
    IF kind = "completion" THEN resp.Choices[1].Text
                           ELSE resp.Choices[1].Delta.Content

RECURSIVE ConcatDeltas(_)
ConcatDeltas(s) ==
    IF s = <<>> THEN "" ELSE DeltaText(Head(s).resp) \o ConcatDeltas(Tail(s))

\* The last non-empty finish reason among the first choices of deltas s.
RECURSIVE LastNonEmptyFinishReason(_)
LastNonEmptyFinishReason(s) ==
    IF s = <<>> THEN ""
    ELSE LET fr == s[Len(s)].resp.Choices[1].FinishReason
         IN IF fr /= "" THEN fr
            ELSE LastNonEmptyFinishReason(SubSeq(s, 1, Len(s) - 1))

Count(s, x) == Cardinality({j \in DOMAIN s : s[j] = x})

UsageKeys == {"PromptTokens", "CompletionTokens", "TotalTokens"}

\* A provider answer that carries no choice.
ZeroChoice(e) ==
    e.err = Nil /\ e.op \in {"Recv", "Create"} /\ Len(e.resp.Choices) = 0

\* The text of a record: the completion's Text, the chat message's Content.
RecordContent(g) == IF kind = "completion" THEN g.Text ELSE g.Message[1].Content

----------------------------------------------------------------------------
\* C1: in a streaming call, the text of every record the accumulator returned
\* is the concatenation, in arrival order, of the fragments delivered to the
\* sink for that item, and its generationInfo holds no usage counter.
C1_StreamTextIsSinkConcat ==
    streaming =>
        \A i \in 1..Len(generations) :
            /\ generations[i].Text = ConcatChunks(ItemChunks(i))
            /\ DOMAIN generations[i].GenerationInfo \cap UsageKeys = {}

\* C2: when the sink returns an error, it is not invoked again, no further
\* delta (nor anything else) is received from the provider, the sink was invoked
\* once per delta received for the item, Generate returns exactly that error with
\* zero records, and no record was produced for the item.
C2_SinkErrorAborts ==
    \A j \in DOMAIN sinkLog :
        sinkLog[j].err /= Nil =>
            LET it == sinkLog[j].item
                last == provider[Len(provider)]
            IN /\ j = Len(sinkLog)
               /\ Len(ItemChunks(it)) = Len(ItemDeltas(it))
               /\ last.op = "Recv" /\ last.err = Nil /\ last.item = it
               /\ DeltaText(last.resp) = sinkLog[j].chunk
               /\ pc = "done"
               /\ ret = [generations |-> <<>>, err |-> sinkLog[j].err]
               /\ Len(generations) = it - 1

\* The sink failed on the second fragment of an item.
C2_Witness ==
    /\ Len(sinkLog) = 2
    /\ sinkLog[1].item = sinkLog[2].item
    /\ sinkLog[1].err = Nil
    /\ sinkLog[2].err \in SinkErrors
    /\ pc = "done"

\* The error an answer of the environment amounts to for the item (Nil: none).
ProviderFailure(e) ==
    IF e.err \notin {Nil, EOF} THEN e.err
    ELSE IF ZeroChoice(e) THEN ErrEmptyResponse
    ELSE Nil

\* C3: when item k fails (a provider error, a zero-choice answer, a sink error),
\* Generate returns zero records and item k's error; the k-1 records produced
\* before are not returned, and no request for a later item was issued.
C3_FailureReturnsNoRecords ==
    /\ \A j \in DOMAIN provider :
          ProviderFailure(provider[j]) /= Nil =>
              /\ pc = "done"
              /\ ret = [generations |-> <<>>, err |-> ProviderFailure(provider[j])]
              /\ Len(generations) = provider[j].item - 1
              /\ \A q \in DOMAIN requests : requests[q].item <= provider[j].item
    /\ \A j \in DOMAIN sinkLog :
          sinkLog[j].err /= Nil =>
              /\ pc = "done"
              /\ ret = [generations |-> <<>>, err |-> sinkLog[j].err]
              /\ Len(generations) = sinkLog[j].item - 1
              /\ \A q \in DOMAIN requests : requests[q].item <= sinkLog[j].item
    /\ (pc = "done" /\ ret.err /= Nil) => ret.generations = <<>>

\* Item 2 of 2 failed after item 1 had produced its record.
C3_Witness ==
    /\ pc = "done"
    /\ ret.err /= Nil
    /\ nItems = 2
    /\ idx = 2
    /\ Len(generations) = 1
    /\ ret.generations = <<>>

\* C4: a provider answer with zero choices (the single response, or a delta at
\* any position of a stream) ends the call with the empty-response error and
\* zero records; no record is produced for the item.
C4_ZeroChoicesIsEmptyResponse ==
    \A j \in DOMAIN provider :
        ZeroChoice(provider[j]) =>
            /\ j = Len(provider)
            /\ pc = "done"
            /\ ret = [generations |-> <<>>, err |-> ErrEmptyResponse]
            /\ Len(generations) = provider[j].item - 1

\* A zero-choice delta arrived after a fragment of the same stream was delivered.
C4_Witness ==
    /\ Len(provider) >= 3
    /\ ZeroChoice(provider[Len(provider)])
    /\ provider[Len(provider)].op = "Recv"
    /\ sinkLog /= <<>>
    /\ sinkLog[Len(sinkLog)].item = provider[Len(provider)].item
    /\ sinkLog[Len(sinkLog)].chunk /= ""
    /\ pc = "done"

\* The non-streaming case of C4: a zero-choice single response ended the call.
C4_WitnessCollect ==
    /\ provider /= <<>>
    /\ ZeroChoice(provider[Len(provider)])
    /\ provider[Len(provider)].op = "Create"
    /\ pc = "done"

\* C5: when Generate succeeds it returns exactly nItems records, and the i-th
\* is built from the provider's answer to the i-th item: its text (for chat,
\* its message content) is the concatenation of item i's delta fragments
\* (streaming) or the first choice's text of item i's response, whose finish
\* reason and total usage it also holds.
C5_RecordsInInputOrder ==
    (pc = "done" /\ ret.err = Nil) =>
        /\ Len(ret.generations) = nItems
        /\ \A i \in 1..nItems :
              LET g == ret.generations[i]
              IN IF streaming
                 THEN RecordContent(g) = ConcatDeltas(ItemDeltas(i))
                 ELSE LET r == ItemResponse(i)
                      IN /\ RecordContent(g) =
                               (IF kind = "completion" THEN r.Choices[1].Text
                                ELSE r.Choices[1].Message.Content)
                         /\ g.GenerationInfo.FinishReason = r.Choices[1].FinishReason
                         /\ g.GenerationInfo.TotalTokens = r.Usage.TotalTokens

\* Two items succeeded with different texts.
C5_Witness ==
    /\ pc = "done"
    /\ ret.err = Nil
    /\ nItems = 2
    /\ Len(ret.generations) = 2
    /\ RecordContent(ret.generations[1]) /= RecordContent(ret.generations[2])

\* C6: in a non-streaming call every response with at least one choice yields
\* exactly one record, appended for its item, whose generationInfo holds the
\* response's three usage counters and the first choice's finish reason.
C6_UsageCountersVerbatim ==
    (~streaming) =>
        /\ Len(generations) =
              Cardinality({j \in DOMAIN provider :
                              /\ provider[j].op = "Create"
                              /\ provider[j].err = Nil
                              /\ Len(provider[j].resp.Choices) >= 1})
        /\ \A i \in 1..Len(generations) :
              LET r == ItemResponse(i)
                  info == generations[i].GenerationInfo
              IN /\ DOMAIN info = UsageKeys \cup {"FinishReason"}
                 /\ info.PromptTokens = r.Usage.PromptTokens
                 /\ info.CompletionTokens = r.Usage.CompletionTokens
                 /\ info.TotalTokens = r.Usage.TotalTokens
                 /\ info.FinishReason = r.Choices[1].FinishReason

\* C7: the finish reason of every record a stream produced is the last
\* non-empty finish reason among the deltas received for its item.
C7_LastNonEmptyFinishReason ==
    streaming =>
        \A i \in 1..Len(generations) :
            generations[i].GenerationInfo.FinishReason =
                LastNonEmptyFinishReason(ItemDeltas(i))

\* C8: a record of chat Generate carries a FunctionCall only if its finish
\* reason is the function-call value.
C8_FunctionCallOnlyWithFinishReason ==
    kind = "chat" =>
        \A i \in 1..Len(generations) :
            generations[i].Message[1].FunctionCall /= <<>> =>
                generations[i].GenerationInfo.FinishReason = FinishReasonFunctionCall

\* C9: a stream is released only if it was opened, never twice, and never
\* while the accumulator is still receiving from it; once the accumulator has
\* left (any exit path) every opened stream has been released exactly once; a
\* failed open releases nothing.
C9_StreamReleasedOnce ==
    /\ \A i \in 1..MaxItems + 1 :
          /\ Count(opened, i) <= 1
          /\ Count(closes, i) <= Count(opened, i)
          /\ (pc /= "recv" \/ i /= idx) => Count(closes, i) = Count(opened, i)
    /\ pc = "recv" => Count(opened, idx) = 1 /\ Count(closes, idx) = 0
    /\ \A j \in DOMAIN provider :
          (provider[j].op = "Open" /\ provider[j].err /= Nil) =>
              /\ Count(opened, provider[j].item) = 0
              /\ Count(closes, provider[j].item) = 0

\* Two streams were opened and released, the second one on a sink error.
C9_Witness ==
    /\ pc = "done"
    /\ opened = <<1, 2>>
    /\ closes = <<1, 2>>
    /\ ret.err \in SinkErrors

\* C10: at most one provider request is in flight; it is the latest one
\* issued, it is for the item right after the records appended so far, and
\* requests are issued in item order, each once.
C10_OneRequestInFlight ==
    /\ Cardinality(inflight) <= 1
    /\ \A r \in inflight :
          /\ r.seq = Len(requests)
          /\ r.item = Len(generations) + 1
    /\ \A q \in DOMAIN requests : requests[q].item = q
    /\ Len(requests) <= Len(generations) + 1

\* The second item's request is in flight, the first item's record appended.
C10_Witness ==
    /\ Len(requests) = 2
    /\ inflight = {requests[2]}
    /\ Len(generations) = 1

\* C11: when stream.Recv returns an error other than end-of-stream, whatever
\* number of deltas came before it, nothing more is received from the provider,
\* the sink is not invoked for it nor afterwards (it was invoked once per delta
\* of the item), Generate returns exactly that error with zero records, and no
\* record was produced for the item.
C11_StreamErrorAborts ==
    \A j \in DOMAIN provider :
        (provider[j].op = "Recv" /\ provider[j].err \notin {Nil, EOF}) =>
            LET it == provider[j].item
            IN /\ j = Len(provider)
               /\ Len(ItemChunks(it)) = Len(ItemDeltas(it))
               /\ \A c \in DOMAIN sinkLog : sinkLog[c].err = Nil
               /\ pc = "done"
               /\ ret = [generations |-> <<>>, err |-> provider[j].err]
               /\ Len(generations) = it - 1

\* The stream failed after a non-empty fragment of the same item had been
\* delivered to the sink.
C11_Witness ==
    /\ Len(provider) >= 3
    /\ provider[Len(provider)].op = "Recv"
    /\ provider[Len(provider)].err \in ProviderErrors
    /\ provider[Len(provider) - 1].op = "Recv"
    /\ provider[Len(provider) - 1].err = Nil
    /\ sinkLog /= <<>>
    /\ sinkLog[Len(sinkLog)].item = provider[Len(provider)].item
    /\ sinkLog[Len(sinkLog)].chunk /= ""
    /\ pc = "done"

\* The deltas received so far that carry at least one choice, in arrival order.
ChoiceDeltas ==
    SelectSeq(provider, LAMBDA e : e.op = "Recv" /\ e.err = Nil
                                    /\ Len(e.resp.Choices) > 0)

\* C12: the sink's invocations are, in order, exactly the received deltas that
\* carry at least one choice, each with the fragment of its first choice, empty
\* fragments included: once per such delta, never for a zero-choice delta, for
\* the end-of-stream signal or for an error, and never twice.
C12_SinkOncePerDelta ==
    /\ Len(sinkLog) = Len(ChoiceDeltas)
    /\ \A j \in DOMAIN sinkLog :
          /\ sinkLog[j].item = ChoiceDeltas[j].item
          /\ sinkLog[j].chunk = DeltaText(ChoiceDeltas[j].resp)

\* An empty fragment, then a non-empty one, were delivered for one item, and
\* the stream then ended.
C12_Witness ==
    /\ Len(sinkLog) = 2
    /\ sinkLog[1].chunk = ""
    /\ sinkLog[2].chunk /= ""
    /\ sinkLog[1].item = sinkLog[2].item
    /\ provider[Len(provider)].err = EOF

\* The model the precedence rule names for a call with the given override:
\* the override, else the instance's model, else the kind's default constant.
PrecedenceModel(override) ==
    IF override /= "" THEN override
    ELSE IF model /= "" THEN model
    ELSE IF kind = "completion" THEN defaultCompletionModel
    ELSE defaultChatModel

\* C13: the model of every request Generate builds is the one the precedence
\* rule names, whichever constructor built the instance, and is never empty;
\* CreateEmbedding called with an empty name requests the default embedding
\* model.
C13_ModelPrecedence ==
    /\ \A j \in DOMAIN built :
          /\ built[j].Model = PrecedenceModel(built[j].override)
          /\ built[j].Model /= ""
    /\ (embCall /= <<>> /\ embRequests /= <<>> /\ embCall[1].model = "") =>
          embRequests[1].Model = stringToEmbeddingModel[defaultEmbeddingModel]

\* CreateEmbedding has returned after the provider answered without error.
EmbeddingAnswered ==
    /\ embResponse /= <<>>
    /\ embResponse[1].err = Nil
    /\ embRet /= <<>>

\* The returned vectors are, in order, the conversions of the provider's.
ConvertedInOrder ==
    /\ Len(embRet[1].embeddings) = Len(embResponse[1].data)
    /\ \A i \in DOMAIN embRet[1].embeddings :
          LET got == embRet[1].embeddings[i]
              sent == embResponse[1].data[i].Embedding
          IN /\ Len(got) = Len(sent)
             /\ \A j \in DOMAIN got : got[j] = [bits |-> 64, val |-> sent[j].val]

\* C14 as stated: CreateEmbedding returns exactly n converted vectors in order
\* or fails, and whenever the provider returns a number of vectors different
\* from n it fails with ErrUnexpectedResponseLength and returns zero vectors.
C14_MismatchIsUnexpectedLength ==
    EmbeddingAnswered =>
        LET n == Len(embCall[1].inputTexts)
        IN /\ embRet[1].err = Nil =>
                 Len(embRet[1].embeddings) = n /\ ConvertedInOrder
           /\ Len(embResponse[1].data) /= n =>
                 /\ embRet[1].err = ErrUnexpectedResponseLength
                 /\ embRet[1].embeddings = <<>>

\* C14, amended: CreateEmbedding returns exactly n converted vectors in order
\* or fails with zero vectors; whenever the provider returns a number of
\* vectors different from n it fails, with ErrUnexpectedResponseLength when
\* that number is not zero and with ErrEmptyResponse when it is zero.
C14_ExactlyNOrFail ==
    /\ (embRet /= <<>> /\ embRet[1].err /= Nil) => embRet[1].embeddings = <<>>
    /\ EmbeddingAnswered =>
          LET n == Len(embCall[1].inputTexts)
              got == Len(embResponse[1].data)
          IN /\ embRet[1].err = Nil =>
                   Len(embRet[1].embeddings) = n /\ ConvertedInOrder
             /\ got /= n =>
                   embRet[1].err = IF got = 0 THEN ErrEmptyResponse
                                   ELSE ErrUnexpectedResponseLength

\* The provider answered two texts with a single vector.
C14_Witness ==
    /\ EmbeddingAnswered
    /\ Len(embCall[1].inputTexts) = 2
    /\ Len(embResponse[1].data) = 1
    /\ embRet[1].err = ErrUnexpectedResponseLength

\* The embedding model name CreateEmbedding looks up.
EmbeddingModelName ==
    IF embCall[1].model = "" THEN defaultEmbeddingModel ELSE embCall[1].model

\* C15: CreateEmbedding with a name that is not in the table returns
\* ErrUnexpectedEmbeddingModel and no request reaches the provider; with a name
\* in the table exactly one request is issued, for the looked-up provider
\* model, carrying all the input texts in input order.
C15_UnknownModelNoRequest ==
    embCall /= <<>> =>
        IF EmbeddingModelName \notin DOMAIN stringToEmbeddingModel
        THEN /\ embRequests = <<>>
             /\ embResponse = <<>>
             /\ embRet = <<[embeddings |-> <<>>, err |-> ErrUnexpectedEmbeddingModel]>>
        ELSE /\ Len(embRequests) = 1
             /\ embRequests[1].Input = embCall[1].inputTexts
             /\ embRequests[1].Model = stringToEmbeddingModel[EmbeddingModelName]

\* CreateEmbedding was called with an unknown name and two different texts.
C15_Witness ==
    /\ embCall /= <<>>
    /\ embCall[1].model = "not-a-real-model"
    /\ embCall[1].inputTexts = <<"t2", "t1">>
    /\ ipc = "returned"

\* C16: when the provider returns zero vectors CreateEmbedding fails with
\* ErrEmptyResponse whatever the number of input texts, zero included; when it
\* returns a non-zero number of vectors other than the number of input texts,
\* CreateEmbedding fails with ErrUnexpectedResponseLength.
C16_EmptyResponseFirst ==
    EmbeddingAnswered =>
        LET n == Len(embCall[1].inputTexts)
            got == Len(embResponse[1].data)
        IN /\ got = 0 => embRet[1].err = ErrEmptyResponse
           /\ (got /= 0 /\ got /= n) => embRet[1].err = ErrUnexpectedResponseLength

\* The provider answered an empty input list with zero vectors.
C16_Witness ==
    /\ EmbeddingAnswered
    /\ embCall[1].inputTexts = <<>>
    /\ embResponse[1].data = <<>>
    /\ embRet[1].err = ErrEmptyResponse

\* The callers whose Parse or ParseWithPrompt call has returned.
Parsed == {c \in Callers : ppc[c] = "done" /\ pcall[c][1].op /= "GetFormatInstructions"}

\* The declared field names, in schema order.
DeclaredNames == [i \in DOMAIN schemas |-> schemas[i].Name]

\* The mappings all of whose values are strings.
StringMappings == {M \in Mappings : \A k \in DOMAIN M : M[k].t = "string"}

\* C17: when the text decodes, Parse (and ParseWithPrompt) fails if and only
\* if a declared name is no key of the decoded mapping; the error is then a
\* ParseJSONError with the original text whose reason lists exactly the absent
\* declared names, in schema order. For the encoding of a mapping of strings the
\* absent names are the declared names the mapping has no entry for: an entry
\* with an empty string is present.
C17_MissingFieldIff ==
    \A c \in Parsed :
        LET text == pcall[c][1].text
            res == presult[c][1]
            d == Unmarshal(text)
            absent == SelectSeq(DeclaredNames, LAMBDA k : k \notin DOMAIN d.parsed)
        IN /\ d.err = <<>> =>
                 /\ res.err /= <<>> <=> absent /= <<>>
                 /\ res.err /= <<>> =>
                       res.err = <<[type |-> "ParseJSONError", Text |-> text,
                                    Reason |-> MissingReason(absent)]>>
           /\ \A M \in StringMappings :
                 text = Marshal(M) =>
                     /\ d.err = <<>>
                     /\ absent = SelectSeq(DeclaredNames, LAMBDA k : k \notin DOMAIN M)

\* Parse of {"prompt":"a cat"} under the schema prompt, negativePrompt failed,
\* listing negativePrompt.
C17_Witness ==
    \E c \in Parsed :
        /\ schemas = <<PromptSchema, NegativePromptSchema>>
        /\ pcall[c][1].op = "Parse"
        /\ pcall[c][1].text = <<LBrace, JSONString("prompt"), Colon,
                                JSONString("a cat"), RBrace>>
        /\ presult[c][1].err /= <<>>
        /\ presult[c][1].err[1].Reason =
              "output is missing the following fields [negativePrompt]"

\* The entries of M whose value is a string, as a mapping to strings.
StringEntries(M) == [k \in {j \in DOMAIN M : M[j].t = "string"} |-> M[k].v]

\* The mapping M has an entry for every declared name.
HasDeclaredNames(M) == \A i \in DOMAIN schemas : schemas[i].Name \in DOMAIN M

\* C18 as stated: for a mapping M with all declared names, Parse of the
\* encoding of M succeeds and returns M restricted to its string-valued entries.
C18_RoundTripDropsNonStrings ==
    \A c \in Parsed : \A M \in Mappings :
        (pcall[c][1].text = Marshal(M) /\ HasDeclaredNames(M)) =>
            /\ presult[c][1].err = <<>>
            /\ presult[c][1].value = <<StringEntries(M)>>

\* C18, amended: for a mapping M with all declared names, Parse of the encoding
\* of M returns M when all values of M are strings; it fails with the decoder's
\* type error when M has a value that is neither a string nor null; otherwise
\* (strings and nulls) it succeeds and returns M with "" for the null values.
C18_RoundTripStrings ==
    \A c \in Parsed : \A M \in Mappings :
        (pcall[c][1].text = Marshal(M) /\ HasDeclaredNames(M)) =>
            LET res == presult[c][1]
            IN IF M \in StringMappings
               THEN /\ res.err = <<>>
                    /\ res.value = <<StringEntries(M)>>
                    /\ DOMAIN res.value[1] = DOMAIN M
               ELSE IF \E k \in DOMAIN M : M[k].t \notin {"string", "null"}
               THEN /\ res.value = <<>>
                    /\ res.err /= <<>>
                    /\ res.err[1].type = "UnmarshalTypeError"
               ELSE /\ res.err = <<>>
                    /\ res.value = <<[k \in DOMAIN M |->
                                        IF M[k].t = "string" THEN M[k].v ELSE ""]>>

\* Parse of {"negativePrompt":1,"prompt":"a cat"} failed with the type error.
C18_Witness ==
    \E c \in Parsed :
        /\ schemas = <<PromptSchema, NegativePromptSchema>>
        /\ pcall[c][1].text = Marshal([k \in Keys |-> IF k = "prompt"
                                                     THEN JSONString("a cat")
                                                     ELSE JSONNumber])
        /\ presult[c][1].err /= <<>>
        /\ presult[c][1].err[1].type = "UnmarshalTypeError"

\* C19: every error Parse (and ParseWithPrompt) returns, for a decode failure
\* as for a missing field, is a value that carries the raw input text.
C19_FailuresCarryText ==
    \A c \in Parsed :
        presult[c][1].err /= <<>> =>
            /\ "Text" \in DOMAIN presult[c][1].err[1]
            /\ presult[c][1].err[1].Text = pcall[c][1].text

\* What a call returns when it runs alone on the parser.
AloneResult(call) ==
    IF call.op = "GetFormatInstructions" THEN GetFormatInstructions(schemas)
    ELSE parse(schemas, call.text)

\* C20: whatever the interleaving of the callers' Parse, ParseWithPrompt and
\* GetFormatInstructions calls, no step changes the parser's schema list, and
\* every call returns what it returns when it runs alone on its input.
C20_NoInterference ==
    /\ [][schemas' = schemas]_vars
    /\ [](\A c \in Callers :
             ppc[c] = "done" => presult[c] = <<AloneResult(pcall[c][1])>>)

\* Two Parse calls are inside their loops at once, each with a missing key of
\* its own.
C20_Witness ==
    /\ ppc["c1"] = "check"
    /\ ppc["c2"] = "check"
    /\ cursor["c1"] = 2
    /\ cursor["c2"] = 3
    /\ missingKeys["c1"] = <<"prompt">>
    /\ missingKeys["c2"] = <<"negativePrompt">>

\* C21: the text of every record of a chat Generate equals the content of its
\* message, on the streaming and on the non-streaming path; the text of every
\* record of a completion Generate is the text the provider sent for the item.
C21_TextMirrorsContent ==
    \A i \in 1..Len(generations) :
        IF kind = "chat"
        THEN generations[i].Text = generations[i].Message[1].Content
        ELSE generations[i].Text =
                 IF streaming THEN ConcatDeltas(ItemDeltas(i))
                 ELSE ItemResponse(i).Choices[1].Text

\* C22: the logger's calls are, item by item, one LLMRequest with the item's
\* prompt, logged no later than the item's request is issued, then one event
\* for the outcome: LLMResponse with the record's text for an item that
\* succeeded, LLMError with the error for the item that failed; the failure's
\* event is the last call, and its error is the one Generate returns.
C22_LoggerSeesRequestThenOutcome ==
    /\ \A k \in DOMAIN log :
          IF k % 2 = 1
          THEN log[k] = [op |-> "LLMRequest", msg |-> Prompt((k + 1) \div 2)]
          ELSE IF k \div 2 <= Len(generations)
          THEN log[k] = [op |-> "LLMResponse", msg |-> generations[k \div 2].Text]
          ELSE /\ log[k].op = "LLMError"
               /\ k = Len(log)
               /\ pc = "done"
               /\ log[k].msg = ret.err
    /\ Len(requests) = (Len(log) + 1) \div 2
    /\ (pc = "done" /\ ret.err /= Nil) =>
          log[Len(log)] = [op |-> "LLMError", msg |-> ret.err]

\* C23: no item has two requests, requests are issued for the items up to and
\* including the first failing one and for no later item, and after a failure
\* (a cancellation included) no request is issued.
C23_NoRetry ==
    /\ \A q, r \in DOMAIN requests : requests[q].item = requests[r].item => q = r
    /\ Len(requests) <= nItems
    /\ \A j \in DOMAIN provider :
          ProviderFailure(provider[j]) /= Nil => Len(requests) = provider[j].item
    /\ \A j \in DOMAIN sinkLog :
          sinkLog[j].err /= Nil => Len(requests) = sinkLog[j].item
    /\ pc = "done" =>
          Len(requests) = IF ret.err = Nil THEN nItems ELSE Len(generations) + 1

\* The first of two items failed with the cancellation error and Generate has
\* returned.
C23_Witness ==
    /\ nItems = 2
    /\ pc = "done"
    /\ ret.err = "context canceled"
    /\ Len(requests) = 1
    /\ Len(provider) >= 1

\* C25: once a stream has signalled end-of-stream, a record for its item has
\* been appended and the item has not failed; when every item has ended so,
\* Generate returns one record per item and no error; a stream that ended
\* without any delta never reached the sink and its record has empty text,
\* empty content and an empty finish reason.
C25_EndOfStreamIsNormal ==
    \A j \in DOMAIN provider :
        provider[j].err = EOF =>
            LET it == provider[j].item
            IN /\ Len(generations) >= it
               /\ \A k \in DOMAIN sinkLog : sinkLog[k].item = it => sinkLog[k].err = Nil
               /\ (pc = "done" /\ it = nItems) =>
                     ret = [generations |-> generations, err |-> Nil]
                     /\ Len(generations) = nItems
               /\ (\A k \in DOMAIN provider :
                      ~(provider[k].item = it /\ provider[k].op = "Recv"
                        /\ provider[k].err = Nil)) =>
                     /\ ItemChunks(it) = <<>>
                     /\ generations[it].Text = ""
                     /\ RecordContent(generations[it]) = ""
                     /\ generations[it].GenerationInfo.FinishReason = ""

\* A stream ended without any delta and Generate returned its one record.
C25_Witness ==
    /\ nItems = 1
    /\ pc = "done"
    /\ Len(provider) = 2
    /\ provider[2].err = EOF
    /\ sinkLog = <<>>
    /\ Len(ret.generations) = 1
    /\ ret.err = Nil

\* The deltas of item i whose finish reason is the function-call value.
FunctionCallDeltas(i) ==
    SelectSeq(ItemDeltas(i),
              LAMBDA e : /\ Len(e.resp.Choices) > 0
                         /\ e.resp.Choices[1].FinishReason = FinishReasonFunctionCall)

\* The name and arguments of the last such delta of item i, if any.
LastFunctionCall(i) ==
    LET deltas == FunctionCallDeltas(i)
    IN IF deltas = <<>> THEN <<>>
       ELSE LET fc == deltas[Len(deltas)].resp.Choices[1].Delta.FunctionCall[1]
            IN <<[Name |-> fc.Name, Arguments |-> fc.Arguments]>>

\* C26: in a chat stream the captured function call is, after every delta, the
\* name and arguments of the last delta whose finish reason is the
\* function-call value, and the record built at end-of-stream carries exactly
\* that: nothing of the other deltas is concatenated into it.
C26_LastFunctionCallOnly ==
    (kind = "chat" /\ streaming) =>
        /\ \A i \in 1..Len(generations) :
              generations[i].Message[1].FunctionCall = LastFunctionCall(i)
        /\ pc = "recv" => functionCall = LastFunctionCall(idx)

\* A stream delivered two function-call deltas with different payloads and
\* ended; the record carries the second one.
C26_Witness ==
    /\ kind = "chat"
    /\ streaming
    /\ Len(generations) >= 1
    /\ Len(FunctionCallDeltas(1)) = 2
    /\ FunctionCallDeltas(1)[1].resp.Choices[1].Delta.FunctionCall
          /= FunctionCallDeltas(1)[2].resp.Choices[1].Delta.FunctionCall
    /\ generations[1].Message[1].FunctionCall =
          FunctionCallDeltas(1)[2].resp.Choices[1].Delta.FunctionCall

\* C27: every function call in a record has a non-empty name, and its
\* arguments are the provider's arguments string.
C27_FunctionCallNamed ==
    kind = "chat" =>
        \A i \in 1..Len(generations) :
            LET fc == generations[i].Message[1].FunctionCall
            IN fc /= <<>> =>
                  /\ fc[1].Name /= ""
                  /\ fc[1].Arguments =
                        IF streaming THEN LastFunctionCall(i)[1].Arguments
                        ELSE ItemResponse(i).Choices[1].Message.FunctionCall[1].Arguments

\* C28: with a sink every request of the call is a streaming operation and the
\* provider is only asked to open streams and receive from them; without a
\* sink every request is a single-response operation, the provider is only
\* asked for whole responses, and no sink is ever invoked.
C28_PathFollowsSink ==
    /\ \A q \in DOMAIN requests :
          requests[q].op \in
              (IF streaming THEN {"CreateCompletionStream", "CreateChatCompletionStream"}
                            ELSE {"CreateCompletion", "CreateChatCompletion"})
    /\ \A j \in DOMAIN provider :
          provider[j].op \in (IF streaming THEN {"Open", "Recv"} ELSE {"Create"})
    /\ ~streaming => sinkLog = <<>>

\* A call with a sink streamed both of its items to the sink.
C28_Witness ==
    /\ streaming
    /\ Len(requests) = 2
    /\ Len(generations) = 2
    /\ \E k \in DOMAIN sinkLog : sinkLog[k].item = 2

\* The table from message types to provider roles.
RoleTable ==
    {<<"system", "system">>, <<"ai", "assistant">>, <<"human", "user">>,
     <<"generic", "user">>, <<"function", "function">>}

\* C29: the translated message sets are as many as the caller's, each with as
\* many messages, in the same places; each provider message has the content of
\* its message and the role the table gives its type; it has a function call,
\* with the same name and arguments, exactly when its message is an AI message
\* that carries one.
C29_TranslationPreservesMessages ==
    cpc = "translated" =>
        /\ Len(chatRequest.messageSets) = Len(chatCall.messageSets)
        /\ \A i \in DOMAIN chatCall.messageSets :
              /\ Len(chatRequest.messageSets[i]) = Len(chatCall.messageSets[i])
              /\ \A j \in DOMAIN chatCall.messageSets[i] :
                    LET m == chatCall.messageSets[i][j]
                        msg == chatRequest.messageSets[i][j]
                    IN /\ msg.Content = m.content
                       /\ <<m.type, msg.Role>> \in RoleTable
                       /\ msg.FunctionCall =
                             IF m.type = "ai" THEN m.functionCall ELSE <<>>

\* C30: the request's functions are the declared ones, one for one and in
\* declaration order, with the same name, description and parameters; the
\* automatic-selection flag is set exactly when at least one function is
\* declared; with none declared the list is empty and the flag is unset.
C30_FunctionsOneToOne ==
    cpc \in {"functions", "translated"} =>
        /\ Len(chatRequest.Functions) = Len(chatCall.Functions)
        /\ \A i \in DOMAIN chatCall.Functions :
              /\ chatRequest.Functions[i].type = "openai.FunctionDefinition"
              /\ chatRequest.Functions[i].Name = chatCall.Functions[i].Name
              /\ chatRequest.Functions[i].Description = chatCall.Functions[i].Description
              /\ chatRequest.Functions[i].Parameters = chatCall.Functions[i].Parameters
        /\ chatRequest.FunctionCall = <<"auto">> <=> Len(chatCall.Functions) >= 1
        /\ Len(chatCall.Functions) = 0 =>
              chatRequest.Functions = <<>> /\ chatRequest.FunctionCall = <<>>

\* Two different functions were declared and the request carries both, with
\* the flag set.
C30_Witness ==
    /\ cpc = "functions"
    /\ Len(chatCall.Functions) = 2
    /\ chatCall.Functions[1].Name = "g"
    /\ chatCall.Functions[2].Name = "f"
    /\ chatRequest.FunctionCall = <<"auto">>

\* C24: a Call whose input is a prompt and a negative prompt separated by one
\* '|' sends one text-to-image request, and when the service answered with a
\* valid base64 image it returns no error and a non-empty result.
C24_PipeInputGeneratesImage ==
    (/\ tpc = "returned"
     /\ tinput = <<(<<Bare("photo of a man"), Pipe, Bare("deformed")>>)>>) =>
        /\ Len(thttp) = 1
        /\ (/\ tresp /= <<>>
            /\ tresp[1].do = <<>>
            /\ tresp[1].unmarshal = <<>>
            /\ tresp[1].Images /= <<>>
            /\ DecodeString(tresp[1].Images[1]).err = <<>>) =>
              tret[1].err = <<>> /\ tret[1].result /= ""

\* C33: when Parse (or ParseWithPrompt) succeeds on the encoding of a mapping,
\* the result has exactly the keys of that mapping, the undeclared ones
\* included, and every key has the string value the text gave it: no value is
\* defaulted or coerced.
C33_MappingUnchanged ==
    \A c \in Parsed : \A M \in Mappings :
        (pcall[c][1].text = Marshal(M) /\ presult[c][1].err = <<>>) =>
            /\ DOMAIN presult[c][1].value[1] = DOMAIN M
            /\ \A k \in DOMAIN M :
                  /\ M[k].t = "string"
                  /\ presult[c][1].value[1][k] = M[k].v

\* C31: without a sink every response with at least one choice makes a record,
\* and every record is built from one response, the one the provider returned
\* for its item, and from the first choice of that response alone: the text (completion) or the content (chat), the finish reason, and
\* for chat the function call when the finish reason is the function-call
\* value; a second choice changes nothing.
C31_FirstChoiceOnly ==
    ~streaming =>
        /\ \A j \in DOMAIN provider :
              (provider[j].err = Nil /\ Len(provider[j].resp.Choices) >= 1)
                  => j \in DOMAIN generations
        /\ \A i \in DOMAIN generations :
              LET e == provider[i]
                  c == e.resp.Choices[1]
                  g == generations[i]
              IN /\ e.item = i
                 /\ e.op = "Create"
                 /\ g.GenerationInfo.FinishReason = c.FinishReason
                 /\ IF kind = "completion"
                    THEN /\ g.Text = c.Text
                         /\ g.Message = <<>>
                    ELSE /\ g.Message[1].Content = c.Message.Content
                         /\ g.Message[1].FunctionCall =
                               IF c.FinishReason = FinishReasonFunctionCall
                               THEN c.Message.FunctionCall ELSE <<>>

\* C37: a Generate call with no item issues no request, opens no stream, never
\* reaches the sink or the logger, and returns the empty record list and no
\* error.
C37_EmptyInput ==
    (nItems = 0 /\ pc /= "idle") =>
        /\ pc \in {"loop", "done"}
        /\ requests = <<>>
        /\ provider = <<>>
        /\ opened = <<>>
        /\ sinkLog = <<>>
        /\ log = <<>>
        /\ pc = "done" => ret = [generations |-> <<>>, err |-> Nil]

\* Generate was called with a sink and no item, and has returned.
C37_Witness ==
    /\ nItems = 0
    /\ streaming
    /\ pc = "done"
    /\ ret.generations = <<>>

\* C36: when a streaming Generate has failed at item j, it returns no record,
\* yet the sink holds the whole output of the items before j (the text of the
\* j-1 records that are not returned) and, for item j, the fragment of every
\* delta with a choice that arrived before the failure, in arrival order.
C36_SinkKeepsDeliveredFragments ==
    (streaming /\ pc = "done" /\ ret.err /= Nil) =>
        LET j == Len(requests)
            arrived == SelectSeq(ItemDeltas(j), LAMBDA e : Len(e.resp.Choices) > 0)
            delivered == ItemChunks(j)
        IN /\ ret.generations = <<>>
           /\ Len(generations) = j - 1
           /\ \A i \in 1..(j - 1) :
                 ConcatChunks(ItemChunks(i)) = RecordContent(generations[i])
           /\ Len(delivered) = Len(arrived)
           /\ \A k \in DOMAIN delivered :
                 delivered[k].chunk = DeltaText(arrived[k].resp)
           /\ \A k \in DOMAIN sinkLog : sinkLog[k].item <= j

\* The second of two streams failed with a provider error after one fragment;
\* the sink had received fragments of both items, and no record is returned.
C36_Witness ==
    /\ streaming
    /\ nItems = 2
    /\ pc = "done"
    /\ ret.err \in ProviderErrors
    /\ ret.generations = <<>>
    /\ Len(requests) = 2
    /\ Len(sinkLog) = 2
    /\ sinkLog[1].item = 1
    /\ sinkLog[1].chunk = "a"
    /\ sinkLog[2].item = 2
    /\ sinkLog[2].chunk = "b"

\* C34: once the receive loop of a stream has been left (its stream is
\* closed), what the provider returned last for that stream is the
\* end-of-stream signal, an error, a delta without choices, or a delta whose
\* fragment the sink answered with an error; and the streaming call then
\* carries on to its return.
C34_LoopExits ==
    (streaming /\ closes /= <<>> /\ pc /= "recv") =>
        LET e == provider[Len(provider)]
        IN /\ pc \in {"loop", "open", "done"}
           /\ \/ e.err /= Nil
              \/ ZeroChoice(e)
              \/ /\ sinkLog /= <<>>
                 /\ sinkLog[Len(sinkLog)].err /= Nil
                 /\ pc = "done"

\* C32: a Call runs Generate on one item and at most one provider request is
\* issued for it; when Call has returned, it returned Generate's error as it is
\* and no value if Generate failed, the empty-response error if Generate
\* returned no record, and otherwise no error and the first record's text
\* (completion) or message (chat).
C32_CallWrapsGenerate ==
    callState /= <<>> =>
        /\ nItems = 1
        /\ Len(requests) <= 1
        /\ callState[1].pc = "returned" =>
              LET r == callState[1].ret
                  none == IF kind = "completion" THEN "" ELSE <<>>
              IN /\ pc = "done"
                 /\ ret.err /= Nil => r = [value |-> none, err |-> ret.err]
                 /\ (ret.err = Nil /\ ret.generations = <<>>) =>
                       r = [value |-> none, err |-> ErrEmptyResponse]
                 /\ (ret.err = Nil /\ ret.generations /= <<>>) =>
                       /\ r.err = Nil
                       /\ Len(ret.generations) = 1
                       /\ kind = "completion" => r.value = ret.generations[1].Text
                       /\ kind = "chat" => r.value = ret.generations[1].Message

\* A Call on the completion orchestrator returned the provider's error, after
\* one request.
C32_Witness ==
    /\ kind = "completion"
    /\ callState /= <<>>
    /\ callState[1].pc = "returned"
    /\ callState[1].ret = [value |-> "", err |-> "transport error"]
    /\ Len(requests) = 1

\* The record a stream that delivered the deltas s and then ended makes: the
\* fragments in arrival order, the finish reason of the last delta, and (chat)
\* the function call of the last delta that finished with one.
StreamRecord(s) ==
    LET fr == IF s = <<>> THEN "" ELSE s[Len(s)].resp.Choices[1].FinishReason
        calls == SelectSeq(s, LAMBDA e : e.resp.Choices[1].FinishReason
                                            = FinishReasonFunctionCall)
        fc == IF calls = <<>> THEN <<>>
              ELSE calls[Len(calls)].resp.Choices[1].Delta.FunctionCall
    IN IF kind = "completion" THEN CompletionStreamGeneration(ConcatDeltas(s), fr)
       ELSE ChatStreamGeneration(ConcatDeltas(s), fr, fc)

\* The record a single response makes.
ResponseRecord(resp) ==
    IF kind = "completion" THEN CompletionGeneration(resp) ELSE ChatGeneration(resp)

\* The Generate call with locals and histories f has the records, and its sink
\* the deliveries, that its own provider answers determine.
OwnAnswersOnly(f) ==
    LET deltas == SelectSeq(f.provider,
                            LAMBDA e : /\ e.op = "Recv"
                                       /\ e.err = Nil
                                       /\ Len(e.resp.Choices) > 0)
    IN /\ Len(f.sinkLog) = Len(deltas)
       /\ \A k \in DOMAIN deltas :
             /\ f.sinkLog[k].item = deltas[k].item
             /\ f.sinkLog[k].chunk = DeltaText(deltas[k].resp)
       /\ \A i \in DOMAIN f.generations :
             f.generations[i] =
                 IF f.streaming
                 THEN StreamRecord(SelectSeq(deltas, LAMBDA e : e.item = i))
                 ELSE ResponseRecord(
                          SelectSeq(f.provider, LAMBDA e : e.item = i)[1].resp)
       /\ f.pc = "done" =>
             f.ret = IF f.ret.err = Nil
                     THEN [generations |-> f.generations, err |-> Nil]
                     ELSE [generations |-> <<>>, err |-> f.ret.err]

\* C35: however the two goroutines' Generate calls are interleaved, each call's
\* records and sink deliveries are those its own provider answers determine,
\* and the instance's model is the one it was constructed with.
C35_CallsDoNotInterfere ==
    /\ OwnAnswersOnly(CurrentFrame)
    /\ OwnAnswersOnly(parked)
    /\ model = ConstructedModel(ctor, envModel, optModel)

\* Two streaming calls ran interleaved, each received its fragment while the
\* other's stream was open, and both returned their own record.
C35_Witness ==
    /\ pc = "done"
    /\ parked.pc = "done"
    /\ streaming
    /\ parked.streaming
    /\ Len(provider) = 3
    /\ Len(parked.provider) = 3
    /\ Len(sinkLog) = 1
    /\ Len(parked.sinkLog) = 1
    /\ sinkLog[1].chunk = "a"
    /\ parked.sinkLog[1].chunk /= "a"
    /\ Len(ret.generations) = 1
    /\ Len(parked.ret.generations) = 1

\* The fields two requests of one call are compared on: all but the item.
SharedFields(k) == DOMAIN BaseRequest(k, ZeroOptions(k), "") \ {ItemField(k)}

\* C38: the requests one Generate call issues agree in every field other than
\* the prompt / message list (model, max-tokens, temperature, top-p,
\* streaming flag, stop words, sample count, penalties, and for chat the
\* function list and the selection flag); the i-th request carries the i-th
\* input item (for Chat.Generate its translation); and the caller's input and
\* options are never changed.
C38_RequestsDifferOnlyInItem ==
    /\ [](/\ Len(issued) <= Len(gcall.items)
          /\ \A i \in DOMAIN issued :
                /\ DOMAIN issued[i] = SharedFields(kind) \cup {ItemField(kind)}
                /\ issued[i][ItemField(kind)] = LoopItems(kind, gcall.items)[i]
                /\ \A j \in DOMAIN issued, f \in SharedFields(kind) :
                      issued[i][f] = issued[j][f])
    /\ [][gcall' = gcall]_vars

\* Two requests issued for two different items under options that set every
\* field.
C38_Witness ==
    /\ Len(issued) = 2
    /\ issued[1][ItemField(kind)] /= issued[2][ItemField(kind)]
    /\ issued[1].Stop /= <<>>
    /\ issued[1].Stream
    /\ issued[1].Model = "gpt-4"
    /\ kind = "chat" => issued[1].Functions /= <<>>

====
